---- MODULE Spec2Model ----
(***************************************************************************)
(* WebSocket <-> SSH bridge (websocket-ssh-server).                        *)
(*                                                                         *)
(* One connection served by the context-driven handler                     *)
(* HandleWebSocket(ctx, w, r): the control loop goroutine ("ctl") and the  *)
(* output pump goroutine SSHSession.HandleOutput ("pump"), sharing one     *)
(* SSHSession (client, session, stdin, stdout, conn, Done, once) and the   *)
(* package-level clients registry.  Every statement that another goroutine *)
(* can observe is a step of its own: a blocking read, the two ends of a    *)
(* WriteJSON call, and each statement of the body of Close.                *)
(***************************************************************************)
EXTENDS Naturals, Sequences, FiniteSets

VARIABLES
    hpc,          \* position of HandleWebSocket (control loop goroutine)
    hafter,       \* where the handler continues after the WriteJSON in progress
    hw,           \* the WSMessage the handler is writing
    ppc,          \* position of HandleOutput (output pump goroutine)
    pafter,       \* where the pump continues after the WriteJSON in progress
    pw,           \* the WSMessage the pump is writing
    cpc,          \* per goroutine: position inside SSHSession.Close / once.Do
    clientID,     \* r.Header.Get("Sec-WebSocket-Key")
    registry,     \* keys of the clients map
    deletes,      \* number of delete(clients, id) executed
    ctxDone,      \* ctx.Done() is closed (cancel() ran or the parent was cancelled)
    extCancel,    \* the parent context was cancelled by the caller
    established,  \* StartSSHSession returned a session
    startErr,     \* the AppError StartSSHSession returned, or NoErr
    dialed,       \* ssh.Dial succeeded: the SSH transport exists
    msg,          \* the WSMessage last decoded by conn.ReadJSON
    nread,        \* peer messages read by the control loop
    CommandBuffer,\* client.CommandBuffer
    clientMu,     \* holder of client.Mu
    onceDone,     \* sync.Once: done flag
    onceMu,       \* sync.Once: holder of its mutex
    doneCloses,   \* number of close(s.Done) executed
    closes,       \* number of Close calls received by client, session, conn
    writing,      \* goroutines currently inside conn.WriteJSON
    wlog,         \* per goroutine: its WriteJSON calls on conn, in call order
    stdinLog,     \* every stdin.Write call, in call order
    chunksRead,   \* chunks returned without error by stdout.Read
    inputsRead,   \* contents of the "input" messages read by the control loop
    sawPeerFail,  \* a conn.ReadJSON of the control loop returned an error
    sawEOF,       \* a stdout.Read of the pump returned io.EOF
    sawReadError, \* a stdout.Read of the pump returned an error other than io.EOF
    resizeLog,    \* every session.WindowChange call, in call order, with its result
    logs,         \* per goroutine: the error lines it wrote with the log package
    clients,      \* package clients: the map, identifier -> *Client (0: no entry)
    recs,         \* the Client records created so far, by number
    mu,           \* package clients: holder of the mutex mu
    rpc,          \* per caller: position inside GetClient / AddClient / CleanupConnection
    rarg,         \* per caller: the call it is in (operation, clientID, client)
    rgot,         \* per caller: the *Client its last GetClient read from the map
    lpc,          \* per connection: position of the registry-driven HandleWebSocket
    lid,          \* per connection: its clientID
    lcl,          \* per connection: client and shell of the startShell call in progress
    pingOn,       \* per connection: the ping goroutine is running
    shells,       \* the SSH transports dialed by SetupSSHConnection, with their shell
    lstdin,       \* every command delivered to a transport (stdin.Write, SendRequest)
    lwlog,        \* per peer channel: the frames written to it, in order
    lnread,       \* peer messages read on the registry-driven connections
    peerOf,       \* per compared run: the error messages sent to its peer
    logOf,        \* per compared run: the error lines logged (as logs)
    auth,         \* the calls of GetSSHAuthMethods made: version, config, result
    lk            \* one registry-driven connection at the grain of its locks

vars == << hpc, hafter, hw, ppc, pafter, pw, cpc, clientID, registry, deletes,
           ctxDone, extCancel, established, startErr, dialed, msg, nread,
           CommandBuffer, clientMu, onceDone, onceMu, doneCloses, closes,
           writing, wlog, stdinLog, chunksRead, inputsRead, sawPeerFail, sawEOF,
           sawReadError, resizeLog, logs, clients, recs, mu, rpc, rarg, rgot,
           lpc, lid, lcl, pingOn, shells, lstdin, lwlog, lnread, peerOf, logOf,
           auth, lk >>

----------------------------------------------------------------------------
(* Bounds of the model.                                                    *)

\* peer messages the control loop may read after the initial one
MaxMsgs == 2
\* chunks the shell may produce on stdout
MaxChunks == 2
\* Client records created (connections accepted)
MaxClients == 2
\* peer messages read on a registry-driven connection
MaxPeerMsgs == 3
\* peer messages read on several registry-driven connections, all together
MaxSharedMsgs == 2
\* failures met by each of two compared runs
MaxFailures == 2
\* calls of GetSSHAuthMethods
MaxResolves == 2

----------------------------------------------------------------------------
(* Data.                                                                   *)

Procs == {"ctl", "pump"}

\* values of the Sec-WebSocket-Key header; "" is a missing header
ClientKeys == {"", "k1"}

\* the exit line compared with client.CommandBuffer
ExitLine == << "e", "x", "i", "t", "\r" >>

\* contents of the "input" messages a peer sends (strings as character sequences)
InputContents == { << "e", "x", "i", "t" >>, << "\r" >> }

\* the k-th chunk stdout.Read returns (string(buf[:n])); HandleOutput never
\* looks into a chunk, so pairwise different chunks stand for all
Chunk(k) == k
\* what a stdout.Read of zero bytes without error returns: string(buf[:0])
EmptyChunk == 0

\* window sizes of "resize" messages
Sizes == { << 40, 120 >> }

\* a nil error
Nil == << >>
\* the texts of the underlying errors two compared runs may meet
CauseTexts == { << "c1" >>, << "c2" >> }
\* two runs that meet the same failures, each with causes of its own
Runs == {1, 2}
\* the text of the error a failing call returns; the handler and the session
\* never look into it (the comparison with io.EOF is a case of its own), so
\* one text stands for all
Cause == << "cause" >>

NoErr == [Code |-> "", Message |-> "", Err |-> Nil]
NoMsg == [Type |-> "", Content |-> << >>, Rows |-> 0, Cols |-> 0]
NoOut == [Type |-> "", Content |-> ""]

\* utils.NewAppError; err is the text of the wrapped error, Nil for nil
NewAppError(code, message, err) == [Code |-> code, Message |-> message, Err |-> err]

\* AppError.Error: "[Code] Message: Err", or "[Code] Message" when Err is nil
Error(e) ==
    IF e.Err # Nil THEN << "[", e.Code, "] ", e.Message, ": " >> \o e.Err
    ELSE << "[", e.Code, "] ", e.Message >>

\* AppError.Log called by goroutine p: log.Printf("ERROR: %s", e.Error())
Logged(l, p, e) ==
    [l EXCEPT ![p] = Append(@, [code |-> e.Code, line |-> << "ERROR: " >> \o Error(e)])]

\* log.Printf(text + ": %v", err) called by goroutine p outside AppError
Printed(l, p, text, err) ==
    [l EXCEPT ![p] = Append(@, [code |-> "", line |-> << text, ": " >> \o err])]

\* faulty variant of ErrorMessage: the text of the cause is sent when there is one
ErrorMessageLeaky(appErr) ==
    [Type |-> "error",
     Content |-> IF appErr.Err = Nil THEN appErr.Message ELSE appErr.Err[Len(appErr.Err)]]
\* utils.WSMessage{Type: "error", Content: appErr.Message}
ErrorMessage(appErr) == [Type |-> "error", Content |-> appErr.Message]

\* faulty variant of OutputMessage: the chunk is not copied into the message
OutputMessageDropped(chunk) == [Type |-> "output", Content |-> 0]
\* utils.WSMessage{Type: "output", Content: string(buf[:n])}
OutputMessage(chunk) == [Type |-> "output", Content |-> chunk]

\* the messages a peer can send after the initial one
PeerMsgs ==
    { [Type |-> "input", Content |-> c, Rows |-> 0, Cols |-> 0] : c \in InputContents }
    \cup { [Type |-> "resize", Content |-> << >>, Rows |-> s[1], Cols |-> s[2]] : s \in Sizes }
    \cup { [Type |-> "ping", Content |-> << >>, Rows |-> 0, Cols |-> 0] }

\* goroutines calling into package clients
RegProcs == {"g1", "g2"}
\* identifiers used as keys of the clients map
RegIds == {"id1", "id2"}
\* no call in progress
NoCall == [op |-> "none", id |-> "", client |-> 0]
\* &clients.Client{Conn: conn}: SSHClient is nil (0, else the number of the
\* dialed transport); the Close calls made through the record on its SSH
\* transport and on its peer channel are counted, and whether the peer has
\* left the channel (closed or broken it)
NewClient ==
    [SSHClient |-> 0, IsConnected |-> FALSE, CommandBuffer |-> << >>,
     sshCloses |-> 0, connCloses |-> 0, peerGone |-> FALSE]

\* the connections of the registry-driven handler, numbered as accepted;
\* connection k owns the Client record k and the peer channel k
Conns == 1..MaxClients
\* startShell not running
NoShell == [client |-> 0, shell |-> 0]
\* the Command texts of the "command" messages a peer sends
Fragments == { << "l" >>, << "\n" >>, << "l", "\n" >> }
\* the messages a peer of the registry-driven handler sends; "malformed" is
\* a frame that is not JSON
LegacyMsgs ==
    { [type |-> "config", command |-> << >>], [type |-> "malformed", command |-> << >>] }
    \cup { [type |-> "command", command |-> f] : f \in Fragments }

\* the termination signal s.Done has fired
DoneFired == doneCloses > 0
\* conn.Close() has been called on the peer channel
ConnClosed == closes["conn"] > 0

\* one entry of wlog: a WriteJSON call, whether Done had fired when it was
\* issued, and whether the channel was still open (the frame reaches the peer)
WriteEntry(m) ==
    [type |-> m.Type, content |-> m.Content,
     afterDone |-> DoneFired, delivered |-> ~ConnClosed]

----------------------------------------------------------------------------
\* the goroutines of one registry-driven connection
Tasks == {"loop", "ping", "out"}

\* HandleWebSocket has upgraded the channel and is about to call AddClient;
\* no lock is held, the record is new (IsConnected false, SSHClient nil)
LkStart ==
    [pc |-> [t \in Tasks |-> IF t = "loop" THEN << "add" >> ELSE << "idle" >>],
     mu |-> "none", Mu |-> "none", reg |-> FALSE, IsConnected |-> FALSE,
     SSHClient |-> FALSE, kind |-> "", bare |-> {}]

Init ==
    /\ hpc = "start"
    /\ hafter = "none"
    /\ hw = NoOut
    /\ ppc = "idle"
    /\ pafter = "none"
    /\ pw = NoOut
    /\ cpc = [p \in Procs |-> "idle"]
    /\ clientID = ""
    /\ registry = {}
    /\ deletes = 0
    /\ ctxDone = FALSE
    /\ extCancel = FALSE
    /\ established = FALSE
    /\ startErr = NoErr
    /\ dialed = FALSE
    /\ msg = NoMsg
    /\ nread = 0
    /\ CommandBuffer = << >>
    /\ clientMu = "none"
    /\ onceDone = FALSE
    /\ onceMu = "none"
    /\ doneCloses = 0
    /\ closes = [r \in {"client", "session", "conn"} |-> 0]
    /\ writing = {}
    /\ wlog = [p \in Procs |-> << >>]
    /\ stdinLog = << >>
    /\ chunksRead = << >>
    /\ inputsRead = << >>
    /\ sawPeerFail = FALSE
    /\ sawEOF = FALSE
    /\ sawReadError = FALSE
    /\ resizeLog = << >>
    /\ logs = [p \in Procs |-> << >>]
    /\ clients = [id \in RegIds |-> 0]
    /\ recs = << >>
    /\ mu = "none"
    /\ rpc = [p \in RegProcs |-> "idle"]
    /\ rarg = [p \in RegProcs |-> NoCall]
    /\ rgot = [p \in RegProcs |-> 0]
    /\ lpc = [k \in Conns |-> "none"]
    /\ lid = [k \in Conns |-> ""]
    /\ lcl = [k \in Conns |-> NoShell]
    /\ pingOn = [k \in Conns |-> FALSE]
    /\ shells = << >>
    /\ lstdin = << >>
    /\ lwlog = [k \in Conns |-> << >>]
    /\ lnread = 0
    /\ peerOf = [r \in Runs |-> << >>]
    /\ logOf = [r \in Runs |-> [p \in Procs |-> << >>]]
    /\ auth = << >>
    /\ lk = LkStart

----------------------------------------------------------------------------
(* Groups of variables, for the UNCHANGED clauses.                         *)

Hv == << hpc, hafter, hw >>
Pv == << ppc, pafter, pw >>
Rv == << clientID, registry, deletes >>
Xv == << ctxDone, extCancel >>
Sv == << established, startErr, dialed >>
Mv == << msg, nread, CommandBuffer, clientMu, inputsRead, stdinLog >>
Ov == << onceDone, onceMu, doneCloses, closes >>
Wv == << writing, wlog >>
Ev == << chunksRead, sawPeerFail, sawEOF >>
Nv == << sawReadError, resizeLog, logs >>
Gv == << lpc, lid, lcl, pingOn, shells, lstdin, lwlog, lnread >>
Fv == << peerOf, logOf, auth, lk >>
Lv == << clients, recs, mu, rpc, rarg, rgot, Gv, Fv >>

----------------------------------------------------------------------------
(* SSHSession.Close: s.once.Do(func() { close(s.Done); s.session.Close();  *)
(* s.client.Close(); s.conn.Close() }).  sync.Once is its done flag and    *)
(* its mutex; a caller that finds the mutex held waits for the holder.     *)

\* a goroutine calls s.Close()
CallClose(p) == cpc' = [cpc EXCEPT ![p] = "enter"]

\* faulty variant of OnceDo: the body of Close runs without the once guard
OnceDoUnguarded(p) ==
    /\ cpc[p] = "enter"
    /\ cpc' = [cpc EXCEPT ![p] = "f_done"]
    /\ UNCHANGED << Hv, Pv, Rv, Xv, Sv, Mv, Ov, Wv, Ev, Nv, Lv >>
\* once.Do, fast path: the done flag is read without the mutex
OnceDo(p) ==
    /\ cpc[p] = "enter"
    /\ cpc' = [cpc EXCEPT ![p] = IF onceDone THEN "ret" ELSE "lock"]
    /\ UNCHANGED << Hv, Pv, Rv, Xv, Sv, Mv, Ov, Wv, Ev, Nv, Lv >>

\* once.doSlow: take the mutex, read the done flag again
OnceDoSlow(p) ==
    /\ cpc[p] = "lock"
    /\ onceMu = "none"
    /\ onceMu' = p
    /\ cpc' = [cpc EXCEPT ![p] = IF onceDone THEN "unlock" ELSE "f_done"]
    /\ UNCHANGED << Hv, Pv, Rv, Xv, Sv, Mv, onceDone, doneCloses, closes, Wv, Ev,
                    Nv, Lv >>

\* faulty variant of CloseDone: the body of Close does not close s.Done first
CloseDoneOmitted(p) ==
    /\ cpc[p] = "f_done"
    /\ cpc' = [cpc EXCEPT ![p] = "f_session"]
    /\ UNCHANGED << Hv, Pv, Rv, Xv, Sv, Mv, Ov, Wv, Ev, Nv, Lv >>
\* close(s.Done)
CloseDone(p) ==
    /\ cpc[p] = "f_done"
    /\ doneCloses' = doneCloses + 1
    /\ cpc' = [cpc EXCEPT ![p] = "f_session"]
    /\ UNCHANGED << Hv, Pv, Rv, Xv, Sv, Mv, onceDone, onceMu, closes, Wv, Ev, Nv, Lv >>

\* s.session.Close()
CloseSession(p) ==
    /\ cpc[p] = "f_session"
    /\ closes' = [closes EXCEPT !["session"] = @ + 1]
    /\ cpc' = [cpc EXCEPT ![p] = "f_client"]
    /\ UNCHANGED << Hv, Pv, Rv, Xv, Sv, Mv, onceDone, onceMu, doneCloses, Wv, Ev,
                    Nv, Lv >>

\* s.client.Close()
CloseClient(p) ==
    /\ cpc[p] = "f_client"
    /\ closes' = [closes EXCEPT !["client"] = @ + 1]
    /\ cpc' = [cpc EXCEPT ![p] = "f_conn"]
    /\ UNCHANGED << Hv, Pv, Rv, Xv, Sv, Mv, onceDone, onceMu, doneCloses, Wv, Ev,
                    Nv, Lv >>

\* faulty variant of CloseConn: Close leaves the peer channel open
CloseConnSkipped(p) ==
    /\ cpc[p] = "f_conn"
    /\ cpc' = [cpc EXCEPT ![p] = "unlock"]
    /\ UNCHANGED << Hv, Pv, Rv, Xv, Sv, Mv, Ov, Wv, Ev, Nv, Lv >>
\* s.conn.Close()
CloseConn(p) ==
    /\ cpc[p] = "f_conn"
    /\ closes' = [closes EXCEPT !["conn"] = @ + 1]
    /\ cpc' = [cpc EXCEPT ![p] = "unlock"]
    /\ UNCHANGED << Hv, Pv, Rv, Xv, Sv, Mv, onceDone, onceMu, doneCloses, Wv, Ev,
                    Nv, Lv >>

\* once.doSlow returns: the deferred done.Store(1), then the deferred m.Unlock()
OnceUnlock(p) ==
    /\ cpc[p] = "unlock"
    /\ onceDone' = TRUE
    /\ onceMu' = IF onceMu = p THEN "none" ELSE onceMu
    /\ cpc' = [cpc EXCEPT ![p] = "ret"]
    /\ UNCHANGED << Hv, Pv, Rv, Xv, Sv, Mv, doneCloses, closes, Wv, Ev, Nv, Lv >>

Close(p) ==
    \/ OnceDo(p)
    \/ OnceDoSlow(p)
    \/ CloseDone(p)
    \/ CloseSession(p)
    \/ CloseClient(p)
    \/ CloseConn(p)
    \/ OnceUnlock(p)

----------------------------------------------------------------------------
(* clients registry.                                                       *)

\* clients.AddClient: clients[clientID] = client
AddClient(id) == registry' = registry \cup {id}

----------------------------------------------------------------------------
(* StartSSHSession: the steps at which construction can fail, in order.    *)

StartOutcomes ==
    { "INVALID_CONFIG", "SSH_CONNECTION_FAILED", "SSH_SESSION_CREATION_FAILED",
      "STDIN_PIPE_FAILED", "STDOUT_PIPE_FAILED", "STDERR_PIPE_FAILED",
      "PTY_REQUEST_FAILED", "SHELL_START_FAILED", "ok" }

\* the message of each AppError StartSSHSession builds
StartMessage(code) ==
    CASE code = "INVALID_CONFIG"              -> "Invalid configuration format"
      [] code = "SSH_CONNECTION_FAILED"       -> "Failed to connect to SSH server"
      [] code = "SSH_SESSION_CREATION_FAILED" -> "Failed to create SSH session"
      [] code = "STDIN_PIPE_FAILED"           -> "Failed to open stdin"
      [] code = "STDOUT_PIPE_FAILED"          -> "Failed to open stdout"
      [] code = "STDERR_PIPE_FAILED"          -> "Failed to open stderr"
      [] code = "PTY_REQUEST_FAILED"          -> "Failed to request PTY"
      [] code = "SHELL_START_FAILED"          -> "Failed to start shell"

\* the failures before which StartSSHSession calls client.Close()
StartClosesClient ==
    { "SSH_SESSION_CREATION_FAILED", "PTY_REQUEST_FAILED", "SHELL_START_FAILED" }

\* session, err := services.StartSSHSession(ctx, msg.Content, conn)
StartSSHSession ==
    /\ hpc = "start_ssh"
    /\ \E o \in StartOutcomes :
          /\ startErr' = IF o = "ok" THEN NoErr
                         ELSE NewAppError(o, StartMessage(o), Cause)
          /\ dialed' = (o \notin {"INVALID_CONFIG", "SSH_CONNECTION_FAILED"})
          /\ established' = (o = "ok")
          /\ closes' = IF o \in StartClosesClient
                       THEN [closes EXCEPT !["client"] = @ + 1] ELSE closes
    /\ hpc' = "started"
    /\ UNCHANGED << hafter, hw, Pv, cpc, Rv, Xv, Mv, onceDone, onceMu, doneCloses,
                    Wv, Ev, Nv, Lv >>

----------------------------------------------------------------------------
(* HandleWebSocket(ctx, w, r), up to the message loop.                     *)

\* the handler starts conn.WriteJSON(m) and continues at `next` afterwards
HandlerWrites(m, next) ==
    /\ hw' = m
    /\ hafter' = next
    /\ hpc' = "wbegin"

\* appErr.Log(); conn.WriteJSON(utils.WSMessage{Type: "error", Content: appErr.Message})
HandlerReports(appErr, next) ==
    /\ logs' = Logged(logs, "ctl", appErr)
    /\ HandlerWrites(ErrorMessage(appErr), next)

\* the AppError HandleWebSocket or HandleOutput makes at the place named by
\* its code (the initial read apart), err being the cause
AppErrorAt(at, err) ==
    CASE at = "WS_UPGRADE_FAILED" ->
            NewAppError(at, "Failed to upgrade to WebSocket", err)
      [] at = "MISSING_CLIENT_ID" ->
            NewAppError(at, "Sec-WebSocket-Key not provided", Nil)
      [] at = "INITIAL_READ" ->
            NewAppError("WS_READ_FAILED", "Failed to read initial WebSocket message", err)
      [] at = "WS_READ_FAILED" ->
            NewAppError(at, "Failed to read WebSocket message", err)
      [] at = "RESIZE_FAILED" ->
            NewAppError(at, "Failed to resize terminal", err)
      [] at = "UNKNOWN_MESSAGE_TYPE" ->
            NewAppError(at, "Unknown message type received", Nil)
      [] at = "OUTPUT_READ_FAILED" ->
            NewAppError(at, "Failed to read SSH session output", err)

\* conn, err := upgrader.Upgrade(w, r, nil); defer conn.Close();
\* clientID := r.Header.Get("Sec-WebSocket-Key")
Upgrade ==
    /\ hpc = "start"
    /\ \E ok \in BOOLEAN, k \in ClientKeys :
          IF ok THEN /\ clientID' = k
                     /\ hpc' = "check_id"
                     /\ UNCHANGED logs
                ELSE /\ clientID' = clientID
                     /\ hpc' = "returned"
                     /\ logs' = Logged(logs, "ctl", AppErrorAt("WS_UPGRADE_FAILED", Cause))
    /\ UNCHANGED << hafter, hw, Pv, cpc, registry, deletes, Xv, Sv, Mv, Ov, Wv, Ev,
                    sawReadError, resizeLog, Lv >>

\* if clientID == "" { ... return }; clients.AddClient(clientID, client);
\* ctx, cancel := context.WithCancel(ctx); defer cancel()
CheckClientID ==
    /\ hpc = "check_id"
    /\ IF clientID = ""
       THEN /\ HandlerReports(AppErrorAt("MISSING_CLIENT_ID", Nil), "defer_conn")
            /\ UNCHANGED registry
       ELSE /\ AddClient(clientID)
            /\ hpc' = "read_init"
            /\ UNCHANGED << hafter, hw, logs >>
    /\ UNCHANGED << Pv, cpc, clientID, deletes, Xv, Sv, Mv, Ov, Wv, Ev, sawReadError,
                    resizeLog, Lv >>

\* if err := conn.ReadJSON(&msg); err != nil { ... return }  (initial message)
ReadInitial ==
    /\ hpc = "read_init"
    /\ \E ok \in BOOLEAN :
          IF ok THEN /\ msg' = [Type |-> "config", Content |-> << >>, Rows |-> 0, Cols |-> 0]
                     /\ hpc' = "start_ssh"
                     /\ UNCHANGED << hafter, hw, logs >>
                ELSE /\ HandlerReports(AppErrorAt("INITIAL_READ", Cause), "defer_cancel")
                     /\ UNCHANGED msg
    /\ UNCHANGED << Pv, cpc, Rv, Xv, Sv, nread, CommandBuffer, clientMu, inputsRead,
                    stdinLog, Ov, Wv, Ev, sawReadError, resizeLog, Lv >>

\* the AppError made when StartSSHSession returned err (itself an AppError):
\* appErr := utils.NewAppError("SSH_SESSION_FAILED", "Failed to start SSH session", err)
StartFailure(err) ==
    NewAppError("SSH_SESSION_FAILED", "Failed to start SSH session", Error(err))

\* the message sent when StartSSHSession returned err
StartFailureMessage(err) == ErrorMessage(StartFailure(err))

\* if err != nil { ... return }; defer session.Close();
\* client.SSHClient = session; go session.HandleOutput(ctx)
HandleStartResult ==
    /\ hpc = "started"
    /\ IF startErr # NoErr
       THEN /\ logs' = Logged(logs, "ctl", StartFailure(startErr))
            /\ HandlerWrites(StartFailureMessage(startErr), "defer_cancel")
            /\ UNCHANGED ppc
       ELSE /\ hpc' = "select"
            /\ ppc' = "select"
            /\ UNCHANGED << hafter, hw, logs >>
    /\ UNCHANGED << pafter, pw, cpc, Rv, Xv, Sv, Mv, Ov, Wv, Ev, sawReadError, resizeLog,
                    Lv >>

\* conn.WriteJSON(...) of the handler: the call starts
HandlerWriteBegin ==
    /\ hpc = "wbegin"
    /\ writing' = writing \cup {"ctl"}
    /\ wlog' = [wlog EXCEPT !["ctl"] = Append(@, WriteEntry(hw))]
    /\ hpc' = "wend"
    /\ UNCHANGED << hafter, hw, Pv, cpc, Rv, Xv, Sv, Mv, Ov, Ev, Nv, Lv >>

\* conn.WriteJSON(...) of the handler: the call returns
HandlerWriteEnd ==
    /\ hpc = "wend"
    /\ writing' = writing \ {"ctl"}
    /\ hpc' = hafter
    /\ hafter' = "none"
    /\ hw' = NoOut
    /\ UNCHANGED << Pv, cpc, Rv, Xv, Sv, Mv, Ov, wlog, Ev, Nv, Lv >>

----------------------------------------------------------------------------
(* HandleWebSocket: the message loop.                                      *)

\* select { case <-ctx.Done(): return; case <-session.Done: return; default: }
LoopSelect ==
    /\ hpc = "select"
    /\ hpc' = IF ctxDone \/ DoneFired THEN "defer_session" ELSE "read"
    /\ UNCHANGED << hafter, hw, Pv, cpc, Rv, Xv, Sv, Mv, Ov, Wv, Ev, Nv, Lv >>

\* conn.ReadJSON(&msg) returns a message of the peer
ReadMessage ==
    /\ hpc = "read"
    /\ nread < MaxMsgs
    /\ \E m \in PeerMsgs :
          /\ msg' = m
          /\ inputsRead' = IF m.Type = "input" THEN Append(inputsRead, m.Content)
                           ELSE inputsRead
    /\ nread' = nread + 1
    /\ hpc' = "dispatch"
    /\ UNCHANGED << hafter, hw, Pv, cpc, Rv, Xv, Sv, CommandBuffer, clientMu, stdinLog,
                    Ov, Wv, Ev, Nv, Lv >>

\* conn.ReadJSON(&msg) returned an error: WS_READ_FAILED is sent, then return
ReadFailed ==
    /\ sawPeerFail' = TRUE
    /\ HandlerReports(AppErrorAt("WS_READ_FAILED", Cause), "defer_session")
    /\ UNCHANGED << Pv, cpc, Rv, Xv, Sv, Mv, Ov, Wv, chunksRead, sawEOF, sawReadError,
                    resizeLog, Lv >>

\* the read fails because of the peer (disconnect, malformed frame)
ReadPeerFailure ==
    /\ hpc = "read"
    /\ ReadFailed

\* the read fails because conn has been closed on this side
ReadOnClosedConn ==
    /\ hpc = "read"
    /\ ConnClosed
    /\ ReadFailed

\* faulty variant of SendInput: the whole command buffer is written
SendInputBuffer(input, ok) ==
    /\ stdinLog' = Append(stdinLog, [content |-> CommandBuffer, afterDone |-> DoneFired,
                                     ok |-> ok])
    /\ logs' = IF ok THEN logs ELSE Printed(logs, "ctl", "Error sending input", Cause)
\* SSHSession.SendInput: s.stdin.Write([]byte(input)); ok is the result of the
\* write, an error is only logged: log.Printf("Error sending input: %v", err)
SendInput(input, ok) ==
    /\ stdinLog' = Append(stdinLog, [content |-> input, afterDone |-> DoneFired,
                                     ok |-> ok])
    /\ logs' = IF ok THEN logs ELSE Printed(logs, "ctl", "Error sending input", Cause)

\* case "input": client.Mu.Lock(); client.CommandBuffer += msg.Content;
\* if client.CommandBuffer == "exit\r" { session.Close() ...
InputMessage ==
    /\ hpc = "dispatch"
    /\ msg.Type = "input"
    /\ clientMu = "none"
    /\ clientMu' = "ctl"
    /\ CommandBuffer' = CommandBuffer \o msg.Content
    /\ IF CommandBuffer' = ExitLine
       THEN /\ CallClose("ctl")
            /\ hpc' = "exit_close"
       ELSE /\ hpc' = "send"
            /\ UNCHANGED cpc
    /\ UNCHANGED << hafter, hw, Pv, Rv, Xv, Sv, msg, nread, inputsRead, stdinLog,
                    Ov, Wv, Ev, Nv, Lv >>

\* faulty variant of ExitReturn: the return after the exit line is missing
ExitReturnToLoop ==
    /\ hpc = "exit_close"
    /\ cpc["ctl"] = "ret"
    /\ cpc' = [cpc EXCEPT !["ctl"] = "idle"]
    /\ clientMu' = "none"
    /\ hpc' = "send"
    /\ UNCHANGED << hafter, hw, Pv, Rv, Xv, Sv, msg, nread, CommandBuffer, inputsRead,
                    stdinLog, Ov, Wv, Ev, Nv, Lv >>
\* ... session.Close() returned; client.Mu.Unlock(); return }
ExitReturn ==
    /\ hpc = "exit_close"
    /\ cpc["ctl"] = "ret"
    /\ cpc' = [cpc EXCEPT !["ctl"] = "idle"]
    /\ clientMu' = "none"
    /\ hpc' = "defer_session"
    /\ UNCHANGED << hafter, hw, Pv, Rv, Xv, Sv, msg, nread, CommandBuffer, inputsRead,
                    stdinLog, Ov, Wv, Ev, Nv, Lv >>

\* faulty variant of InputSend: a failed write to stdin ends the session
InputSendFatal ==
    /\ hpc = "send"
    /\ \E ok \in BOOLEAN :
          /\ SendInput(msg.Content, ok)
          /\ hpc' = IF ok THEN "select" ELSE "defer_session"
    /\ clientMu' = "none"
    /\ UNCHANGED << hafter, hw, Pv, cpc, Rv, Xv, Sv, msg, nread, CommandBuffer,
                    inputsRead, Ov, Wv, Ev, sawReadError, resizeLog, Lv >>

\* faulty variant of InputSend: the command buffer is emptied after the write
InputSendClearing ==
    /\ hpc = "send"
    /\ \E ok \in BOOLEAN : SendInput(msg.Content, ok)
    /\ clientMu' = "none"
    /\ hpc' = "select"
    /\ CommandBuffer' = << >>
    /\ UNCHANGED << hafter, hw, Pv, cpc, Rv, Xv, Sv, msg, nread,
                    inputsRead, Ov, Wv, Ev, sawReadError, resizeLog, Lv >>
\* session.SendInput(msg.Content); client.Mu.Unlock()
InputSend ==
    /\ hpc = "send"
    /\ \E ok \in BOOLEAN : SendInput(msg.Content, ok)
    /\ clientMu' = "none"
    /\ hpc' = "select"
    /\ UNCHANGED << hafter, hw, Pv, cpc, Rv, Xv, Sv, msg, nread, CommandBuffer,
                    inputsRead, Ov, Wv, Ev, sawReadError, resizeLog, Lv >>

\* faulty variant of ResizeTerminal: rows and columns are exchanged
ResizeTerminalSwapped(rows, cols, ok) ==
    resizeLog' = Append(resizeLog, [rows |-> cols, cols |-> rows, ok |-> ok])
\* SSHSession.ResizeTerminal: err := s.session.WindowChange(rows, cols);
\* ok is whether WindowChange returned nil (an error is logged with
\* log.Printf and returned: see ResizeMessage)
ResizeTerminal(rows, cols, ok) ==
    resizeLog' = Append(resizeLog, [rows |-> rows, cols |-> cols, ok |-> ok])

\* case "resize": err := session.ResizeTerminal(msg.Rows, msg.Cols);
\* if err != nil { ... WriteJSON(RESIZE_FAILED) }
ResizeMessage ==
    /\ hpc = "dispatch"
    /\ msg.Type = "resize"
    /\ \E ok \in BOOLEAN :
          /\ ResizeTerminal(msg.Rows, msg.Cols, ok)
          /\ IF ok THEN /\ hpc' = "select"
                        /\ UNCHANGED << hafter, hw, logs >>
                   ELSE /\ logs' = Logged(Printed(logs, "ctl", "Error resizing terminal",
                                                  Cause),
                                          "ctl", AppErrorAt("RESIZE_FAILED", Cause))
                        /\ HandlerWrites(ErrorMessage(AppErrorAt("RESIZE_FAILED", Cause)),
                                         "select")
    /\ UNCHANGED << Pv, cpc, Rv, Xv, Sv, Mv, Ov, Wv, Ev, sawReadError, Lv >>

\* faulty variant of UnknownMessage: the message is dropped without a report
UnknownMessageSilent ==
    /\ hpc = "dispatch"
    /\ msg.Type \notin {"input", "resize"}
    /\ hpc' = "select"
    /\ UNCHANGED << hafter, hw, Pv, cpc, Rv, Xv, Sv, Mv, Ov, Wv, Ev, Nv, Lv >>
\* default: ... WriteJSON(UNKNOWN_MESSAGE_TYPE)
UnknownMessage ==
    /\ hpc = "dispatch"
    /\ msg.Type \notin {"input", "resize"}
    /\ HandlerReports(AppErrorAt("UNKNOWN_MESSAGE_TYPE", Nil), "select")
    /\ UNCHANGED << Pv, cpc, Rv, Xv, Sv, Mv, Ov, Wv, Ev, sawReadError, resizeLog, Lv >>

----------------------------------------------------------------------------
(* HandleWebSocket: the deferred calls, last registered first.             *)

\* defer session.Close(): the call
DeferSessionClose ==
    /\ hpc = "defer_session"
    /\ CallClose("ctl")
    /\ hpc' = "defer_session_wait"
    /\ UNCHANGED << hafter, hw, Pv, Rv, Xv, Sv, Mv, Ov, Wv, Ev, Nv, Lv >>

\* defer session.Close(): the call returns
DeferSessionReturn ==
    /\ hpc = "defer_session_wait"
    /\ cpc["ctl"] = "ret"
    /\ cpc' = [cpc EXCEPT !["ctl"] = "idle"]
    /\ hpc' = "defer_cancel"
    /\ UNCHANGED << hafter, hw, Pv, Rv, Xv, Sv, Mv, Ov, Wv, Ev, Nv, Lv >>

\* defer cancel()
DeferCancel ==
    /\ hpc = "defer_cancel"
    /\ ctxDone' = TRUE
    /\ hpc' = "defer_conn"
    /\ UNCHANGED << hafter, hw, Pv, cpc, Rv, extCancel, Sv, Mv, Ov, Wv, Ev, Nv, Lv >>

\* defer conn.Close()
DeferConnClose ==
    /\ hpc = "defer_conn"
    /\ closes' = [closes EXCEPT !["conn"] = @ + 1]
    /\ hpc' = "returned"
    /\ UNCHANGED << hafter, hw, Pv, cpc, Rv, Xv, Sv, Mv, onceDone, onceMu, doneCloses,
                    Wv, Ev, Nv, Lv >>

\* the caller of HandleWebSocket cancels the context it passed
ExternalCancel ==
    /\ hpc \notin {"start", "returned"}
    /\ ~extCancel
    /\ extCancel' = TRUE
    /\ ctxDone' = TRUE
    /\ UNCHANGED << Hv, Pv, cpc, Rv, Sv, Mv, Ov, Wv, Ev, Nv, Lv >>

----------------------------------------------------------------------------
(* SSHSession.HandleOutput(ctx): the output pump.                          *)

\* the pump starts s.conn.WriteJSON(m) and continues at `next` afterwards
PumpWrites(m, next) ==
    /\ pw' = m
    /\ pafter' = next
    /\ ppc' = "wbegin"

\* appErr.Log(); s.conn.WriteJSON(utils.WSMessage{Type: "error", Content: appErr.Message})
PumpReports(appErr, next) ==
    /\ logs' = Logged(logs, "pump", appErr)
    /\ PumpWrites(ErrorMessage(appErr), next)

\* select { case <-ctx.Done(): return; case <-s.Done: return; default: }
PumpSelect ==
    /\ ppc = "select"
    /\ ppc' = IF ctxDone \/ DoneFired THEN "returned" ELSE "read"
    /\ UNCHANGED << Hv, pafter, pw, cpc, Rv, Xv, Sv, Mv, Ov, Wv, Ev, Nv, Lv >>

\* n, err := s.stdout.Read(buf) with n == 0 and err == nil (io.Reader allows
\* it), then WriteJSON(output): n is not tested
PumpReadEmpty ==
    /\ ppc = "read"
    /\ Len(chunksRead) < MaxChunks
    /\ chunksRead' = Append(chunksRead, EmptyChunk)
    /\ PumpWrites(OutputMessage(EmptyChunk), "select")
    /\ UNCHANGED << Hv, cpc, Rv, Xv, Sv, Mv, Ov, Wv, sawPeerFail, sawEOF, Nv, Lv >>

\* n, err := s.stdout.Read(buf) with n > 0 and err == nil, then WriteJSON(output)
PumpReadChunk ==
    /\ ppc = "read"
    /\ Len(chunksRead) < MaxChunks
    /\ LET c == Chunk(Len(chunksRead) + 1) IN
          /\ chunksRead' = Append(chunksRead, c)
          /\ PumpWrites(OutputMessage(c), "select")
    /\ UNCHANGED << Hv, cpc, Rv, Xv, Sv, Mv, Ov, Wv, sawPeerFail, sawEOF, Nv, Lv >>

\* faulty variant of PumpGotEOF: end-of-stream is reported like any other error
PumpGotEOFReported ==
    /\ sawEOF' = TRUE
    /\ PumpReports(AppErrorAt("OUTPUT_READ_FAILED", << "EOF" >>), "close")
    /\ UNCHANGED << Hv, cpc, Rv, Xv, Sv, Mv, Ov, Wv, chunksRead, sawPeerFail,
                    sawReadError, resizeLog, Lv >>
\* the read returned io.EOF: s.Close(); return
PumpGotEOF ==
    /\ sawEOF' = TRUE
    /\ ppc' = "close"
    /\ UNCHANGED << Hv, pafter, pw, cpc, Rv, Xv, Sv, Mv, Ov, Wv, chunksRead, sawPeerFail,
                    Nv, Lv >>

\* the read returned another error: WriteJSON(OUTPUT_READ_FAILED); s.Close(); return
PumpGotError ==
    /\ sawReadError' = TRUE
    /\ PumpReports(AppErrorAt("OUTPUT_READ_FAILED", Cause), "close")
    /\ UNCHANGED << Hv, cpc, Rv, Xv, Sv, Mv, Ov, Wv, Ev, resizeLog, Lv >>

\* the remote shell ends its output stream
PumpReadEOF ==
    /\ ppc = "read"
    /\ PumpGotEOF

\* the read fails for a reason of the remote side
PumpReadError ==
    /\ ppc = "read"
    /\ PumpGotError

\* the read is released because the SSH transport has been closed on this side
PumpReadOnClosedClient ==
    /\ ppc = "read"
    /\ closes["client"] > 0
    /\ (PumpGotEOF \/ PumpGotError)

\* s.conn.WriteJSON(...) of the pump: the call starts
PumpWriteBegin ==
    /\ ppc = "wbegin"
    /\ writing' = writing \cup {"pump"}
    /\ wlog' = [wlog EXCEPT !["pump"] = Append(@, WriteEntry(pw))]
    /\ ppc' = "wend"
    /\ UNCHANGED << Hv, pafter, pw, cpc, Rv, Xv, Sv, Mv, Ov, Ev, Nv, Lv >>

\* s.conn.WriteJSON(...) of the pump: the call returns
PumpWriteEnd ==
    /\ ppc = "wend"
    /\ writing' = writing \ {"pump"}
    /\ ppc' = pafter
    /\ pafter' = "none"
    /\ pw' = NoOut
    /\ UNCHANGED << Hv, cpc, Rv, Xv, Sv, Mv, Ov, wlog, Ev, Nv, Lv >>

\* s.Close() of the pump: the call
PumpClose ==
    /\ ppc = "close"
    /\ CallClose("pump")
    /\ ppc' = "closing"
    /\ UNCHANGED << Hv, pafter, pw, Rv, Xv, Sv, Mv, Ov, Wv, Ev, Nv, Lv >>

\* s.Close() of the pump returns; return
PumpReturn ==
    /\ ppc = "closing"
    /\ cpc["pump"] = "ret"
    /\ cpc' = [cpc EXCEPT !["pump"] = "idle"]
    /\ ppc' = "returned"
    /\ UNCHANGED << Hv, pafter, pw, Rv, Xv, Sv, Mv, Ov, Wv, Ev, Nv, Lv >>

----------------------------------------------------------------------------
(* The steps a goroutine takes by itself, and those that wait for the peer, *)
(* the remote shell or the caller.                                         *)

HandlerStep ==
    \/ CheckClientID
    \/ StartSSHSession
    \/ HandleStartResult
    \/ HandlerWriteBegin
    \/ HandlerWriteEnd
    \/ LoopSelect
    \/ ReadOnClosedConn
    \/ InputMessage
    \/ ExitReturn
    \/ InputSend
    \/ ResizeMessage
    \/ UnknownMessage
    \/ DeferSessionClose
    \/ DeferSessionReturn
    \/ DeferCancel
    \/ DeferConnClose
    \/ Close("ctl")

PumpStep ==
    \/ PumpSelect
    \/ PumpReadOnClosedClient
    \/ PumpWriteBegin
    \/ PumpWriteEnd
    \/ PumpClose
    \/ PumpReturn
    \/ Close("pump")

Environment ==
    \/ Upgrade
    \/ ReadInitial
    \/ ReadMessage
    \/ ReadPeerFailure
    \/ PumpReadChunk
    \/ PumpReadEOF
    \/ PumpReadError
    \/ ExternalCancel

Next == HandlerStep \/ PumpStep \/ Environment

Spec == Init /\ [][Next]_vars

\* the same with a stdout whose Read may return zero bytes and no error
ZeroReadSpec == Init /\ [][Next \/ PumpReadEmpty]_vars

\* each goroutine that can take a step by itself eventually takes one
FairSpec == Spec /\ WF_vars(HandlerStep) /\ WF_vars(PumpStep)

----------------------------------------------------------------------------
(* Package clients: GetClient, AddClient and CleanupConnection called by   *)
(* concurrent goroutines.  Every statement between mu.Lock() and           *)
(* mu.Unlock() is a step of its own.                                       *)

CtxVars == << Hv, Pv, cpc, Rv, Xv, Sv, Mv, Ov, Wv, Ev, Nv, Fv >>
SessionVars == << CtxVars, Gv >>

\* client.SSHClient.Close(), when client.SSHClient != nil
CloseSSHClient(rs, c) ==
    IF rs[c].SSHClient # 0 THEN [rs EXCEPT ![c].sshCloses = @ + 1] ELSE rs

\* client.Conn.Close()
CloseClientConn(rs, c) == [rs EXCEPT ![c].connCloses = @ + 1]

\* clients[clientID] = client
StoreEntry(cl, id, c) == [cl EXCEPT ![id] = c]

\* faulty variant of DeleteEntry: the entry stays in the map
DeleteEntryKept(cl, id) == cl
\* delete(clients, clientID)
DeleteEntry(cl, id) == [cl EXCEPT ![id] = 0]

\* CleanupConnection as a function of the registry state st = (clients, recs)
CleanupConnection(st, id) ==
    IF st.clients[id] # 0
    THEN [clients |-> DeleteEntry(st.clients, id),
          recs |-> CloseClientConn(CloseSSHClient(st.recs, st.clients[id]),
                                   st.clients[id])]
    ELSE st

\* the registry state CleanupConnection works on
RegState == [clients |-> clients, recs |-> recs]

\* a goroutine calls GetClient(clientID)
GetClientCall(p) ==
    /\ rpc[p] = "idle"
    /\ \E id \in RegIds : rarg' = [rarg EXCEPT ![p] = [op |-> "get", id |-> id, client |-> 0]]
    /\ rpc' = [rpc EXCEPT ![p] = "lock"]
    /\ UNCHANGED << SessionVars, clients, recs, mu, rgot >>

\* a goroutine makes client := &clients.Client{Conn: conn} and calls
\* AddClient(clientID, client)
AddClientCall(p) ==
    /\ rpc[p] = "idle"
    /\ Len(recs) < MaxClients
    /\ recs' = Append(recs, NewClient)
    /\ \E id \in RegIds :
          rarg' = [rarg EXCEPT ![p] = [op |-> "add", id |-> id, client |-> Len(recs) + 1]]
    /\ rpc' = [rpc EXCEPT ![p] = "lock"]
    /\ UNCHANGED << SessionVars, clients, mu, rgot >>

\* a goroutine calls CleanupConnection(clientID)
CleanupCall(p) ==
    /\ rpc[p] = "idle"
    /\ \E id \in RegIds :
          rarg' = [rarg EXCEPT ![p] = [op |-> "cleanup", id |-> id, client |-> 0]]
    /\ rpc' = [rpc EXCEPT ![p] = "lock"]
    /\ UNCHANGED << SessionVars, clients, recs, mu, rgot >>

\* faulty variant of RegLock: the caller does not wait for the mutex
RegLockRacy(p) ==
    /\ rpc[p] = "lock"
    /\ mu' = p
    /\ rpc' = [rpc EXCEPT ![p] = rarg[p].op]
    /\ UNCHANGED << SessionVars, clients, recs, rarg, rgot >>
\* mu.Lock()
RegLock(p) ==
    /\ rpc[p] = "lock"
    /\ mu = "none"
    /\ mu' = p
    /\ rpc' = [rpc EXCEPT ![p] = rarg[p].op]
    /\ UNCHANGED << SessionVars, clients, recs, rarg, rgot >>

\* GetClient: return clients[clientID] (the result is evaluated, then the
\* deferred mu.Unlock() runs)
GetClientRead(p) ==
    /\ rpc[p] = "get"
    /\ rgot' = [rgot EXCEPT ![p] = clients[rarg[p].id]]
    /\ rpc' = [rpc EXCEPT ![p] = "unlock"]
    /\ UNCHANGED << SessionVars, clients, recs, mu, rarg >>

\* AddClient: clients[clientID] = client
AddClientStore(p) ==
    /\ rpc[p] = "add"
    /\ clients' = StoreEntry(clients, rarg[p].id, rarg[p].client)
    /\ rpc' = [rpc EXCEPT ![p] = "unlock"]
    /\ UNCHANGED << SessionVars, recs, mu, rarg, rgot >>

\* CleanupConnection: client, exists := clients[clientID]; if exists {
CleanupLookup(p) ==
    /\ rpc[p] = "cleanup"
    /\ rarg' = [rarg EXCEPT ![p].client = clients[rarg[p].id]]
    /\ rpc' = [rpc EXCEPT ![p] = IF clients[rarg[p].id] # 0 THEN "close_ssh" ELSE "unlock"]
    /\ UNCHANGED << SessionVars, clients, recs, mu, rgot >>

\* CleanupConnection: if client.SSHClient != nil { client.SSHClient.Close() }
CleanupCloseSSH(p) ==
    /\ rpc[p] = "close_ssh"
    /\ recs' = CloseSSHClient(recs, rarg[p].client)
    /\ rpc' = [rpc EXCEPT ![p] = "close_conn"]
    /\ UNCHANGED << SessionVars, clients, mu, rarg, rgot >>

\* CleanupConnection: client.Conn.Close()
CleanupCloseConn(p) ==
    /\ rpc[p] = "close_conn"
    /\ recs' = CloseClientConn(recs, rarg[p].client)
    /\ rpc' = [rpc EXCEPT ![p] = "delete"]
    /\ UNCHANGED << SessionVars, clients, mu, rarg, rgot >>

\* CleanupConnection: delete(clients, clientID)
CleanupDelete(p) ==
    /\ rpc[p] = "delete"
    /\ clients' = DeleteEntry(clients, rarg[p].id)
    /\ rpc' = [rpc EXCEPT ![p] = "unlock"]
    /\ UNCHANGED << SessionVars, recs, mu, rarg, rgot >>

\* mu.Unlock(), and the call returns
RegUnlock(p) ==
    /\ rpc[p] = "unlock"
    /\ mu' = IF mu = p THEN "none" ELSE mu
    /\ rpc' = [rpc EXCEPT ![p] = "idle"]
    /\ rarg' = [rarg EXCEPT ![p] = NoCall]
    /\ UNCHANGED << SessionVars, clients, recs, rgot >>

\* the owner of a registered record attaches the SSH transport it dialed:
\* client.SSHClient = sshClient
SetSSHClient ==
    /\ \E c \in 1..Len(recs) :
          /\ recs[c].SSHClient = 0
          /\ \E id \in RegIds : clients[id] = c
          /\ recs' = [recs EXCEPT ![c].SSHClient = c]
    /\ UNCHANGED << SessionVars, clients, mu, rpc, rarg, rgot >>

RegNext ==
    \/ \E p \in RegProcs :
          \/ GetClientCall(p)
          \/ AddClientCall(p)
          \/ CleanupCall(p)
          \/ RegLock(p)
          \/ GetClientRead(p)
          \/ AddClientStore(p)
          \/ CleanupLookup(p)
          \/ CleanupCloseSSH(p)
          \/ CleanupCloseConn(p)
          \/ CleanupDelete(p)
          \/ RegUnlock(p)
    \/ SetSSHClient

RegSpec == Init /\ [][RegNext]_vars

----------------------------------------------------------------------------
(* The registry-driven handler: HandleWebSocket(w, r) with its ping        *)
(* goroutine, handleMessage, SetupSSHConnection, startShell with its       *)
(* output goroutine, and ExecuteCommand, for several connections sharing   *)
(* the clients registry.  GetClient, AddClient and CleanupConnection are   *)
(* single steps here.                                                      *)

OtherVars == << CtxVars, mu, rpc, rarg, rgot >>

\* MessageSender.SendMessage / SendError of the sender made for client c:
\* one frame on c's peer channel, nothing when c is nil
SendMessage(wl, c, type, content) ==
    IF c = 0 THEN wl
    ELSE [wl EXCEPT ![c] = Append(@, [type |-> type, content |-> content, shell |-> 0])]

\* the transport dialed for the config message read by handler k
NewShell(k, t) ==
    [by |-> k, transport |-> t, rec |-> 0, live |-> FALSE, pumping |-> FALSE,
     frags |-> << >>]

\* Close has been called on the transport of shell t
TransportClosed(t) ==
    \E c \in 1..Len(recs) :
        recs[c].SSHClient = shells[t].transport /\ recs[c].sshCloses > 0

\* history: a command text read from peer channel c, noted for every shell
\* that is live on c
NoteFragment(sh, c, m) ==
    [t \in 1..Len(sh) |->
        IF m.type = "command" /\ sh[t].rec = c /\ sh[t].live
        THEN [sh[t] EXCEPT !.frags = Append(@, m.command)] ELSE sh[t]]

\* the peer messages read are bounded, more tightly with several peers
MsgBudget == IF Len(recs) > 1 THEN MaxSharedMsgs ELSE MaxPeerMsgs

\* a read or a write on the peer channel of client c returns an error
ConnFails(c) == recs[c].peerGone \/ recs[c].connCloses > 0

\* the peer of connection k disconnects, or its channel breaks
LPeerGone(k) ==
    /\ lpc[k] # "none"
    /\ ~recs[k].peerGone
    /\ recs' = [recs EXCEPT ![k].peerGone = TRUE]
    /\ UNCHANGED << OtherVars, clients, Gv >>

\* the registry after clients.CleanupConnection(id)
Cleanup(id) ==
    /\ clients' = CleanupConnection(RegState, id).clients
    /\ recs' = CleanupConnection(RegState, id).recs

\* conn, err := upgrader.Upgrade(w, r, nil);
\* clientID := fmt.Sprintf("%d", time.Now().UnixNano());
\* client := &clients.Client{Conn: conn}; clients.AddClient(clientID, client);
\* defer clients.CleanupConnection(clientID); go func() { ping loop }()
LAccept ==
    /\ Len(recs) < MaxClients
    /\ LET k == Len(recs) + 1 IN
          /\ recs' = Append(recs, NewClient)
          /\ \E id \in RegIds :
                /\ clients' = StoreEntry(clients, id, k)
                /\ lid' = [lid EXCEPT ![k] = id]
          /\ lpc' = [lpc EXCEPT ![k] = "loop"]
          /\ pingOn' = [pingOn EXCEPT ![k] = TRUE]
    /\ UNCHANGED << OtherVars, lcl, shells, lstdin, lwlog, lnread >>

\* ping goroutine: client.Conn.WriteMessage(websocket.PingMessage, nil)
\* returned an error: clients.CleanupConnection(clientID); return
LPingFailed(k) ==
    /\ pingOn[k]
    /\ ConnFails(k)
    /\ pingOn' = [pingOn EXCEPT ![k] = FALSE]
    /\ Cleanup(lid[k])
    /\ UNCHANGED << OtherVars, lpc, lid, lcl, shells, lstdin, lwlog, lnread >>

\* HandleWebSocket: conn.ReadMessage() returned an error:
\* messageSender.SendMessage("disconnected"); return, then the deferred
\* clients.CleanupConnection(clientID)
LReadFailed(k) ==
    /\ lpc[k] = "loop"
    /\ ConnFails(k)
    /\ lwlog' = SendMessage(lwlog, k, "disconnected", "WebSocket connection closed")
    /\ Cleanup(lid[k])
    /\ lpc' = [lpc EXCEPT ![k] = "returned"]
    /\ UNCHANGED << OtherVars, lid, lcl, pingOn, shells, lstdin, lnread >>

\* ExecuteCommand(client, command) issues the SSH request
\* client.SSHClient.Conn.SendRequest(command, false, nil)
ExecuteCommandSends(c) == c # 0 /\ recs[c].IsConnected

\* HandleWebSocket: conn.ReadMessage() returned a message;
\* handleMessage(clientID, message) up to the call of SetupSSHConnection
LHandleMessage(k) ==
    /\ lpc[k] = "loop"
    /\ lnread < MsgBudget
    /\ ~ConnFails(k)
    /\ \E m \in LegacyMsgs :
          LET client == clients[lid[k]]
              buf == recs[client].CommandBuffer \o m.command
              flush == client # 0 /\ m = [type |-> "command", command |-> << "\n" >>]
          IN  /\ shells' = NoteFragment(shells, k, m)
              /\ lpc' = IF client # 0 /\ m.type = "config"
                         THEN [lpc EXCEPT ![k] = "setup"] ELSE lpc
              /\ recs' = IF client # 0 /\ m.type = "command"
                          THEN [recs EXCEPT ![client].CommandBuffer =
                                                IF flush THEN << >> ELSE buf]
                          ELSE recs
              /\ lstdin' = IF flush /\ ExecuteCommandSends(client)
                            THEN Append(lstdin, [shell |-> recs[client].SSHClient,
                                                 via |-> "request", from |-> k,
                                                 text |-> buf])
                            ELSE lstdin
              /\ lwlog' = IF m.type = "malformed"
                           THEN SendMessage(lwlog, client, "error", "Invalid message format")
                           ELSE IF flush /\ ~ExecuteCommandSends(client)
                           THEN SendMessage(lwlog, client, "error",
                                            "No SSH connection available")
                           ELSE lwlog
    /\ lnread' = lnread + 1
    /\ UNCHANGED << OtherVars, clients, lid, lcl, pingOn >>

\* SetupSSHConnection: client := clients.GetClient(clientID);
\* if client == nil || client.IsConnected { SendError(...); return }
LSetup(k) ==
    /\ lpc[k] = "setup"
    /\ LET client == clients[lid[k]] IN
          IF client = 0 \/ recs[client].IsConnected
          THEN /\ lwlog' = SendMessage(lwlog, client, "error",
                                       "Already connected to an SSH server")
               /\ lpc' = [lpc EXCEPT ![k] = "loop"]
               /\ UNCHANGED lcl
          ELSE /\ lcl' = [lcl EXCEPT ![k] = [client |-> client, shell |-> 0]]
               /\ lpc' = [lpc EXCEPT ![k] = "dial"]
               /\ UNCHANGED lwlog
    /\ UNCHANGED << OtherVars, clients, recs, lid, pingOn, shells, lstdin, lnread >>

\* SetupSSHConnection: ssh.ParsePrivateKey, ssh.Dial; on success
\* client.SSHClient = sshClient; client.IsConnected = true;
\* SendMessage("connected"), then startShell(clientID) is called
LDial(k) ==
    /\ lpc[k] = "dial"
    /\ \E o \in {"Invalid private key", "Failed to establish SSH connection", "ok"} :
          LET client == lcl[k].client IN
          IF o = "ok"
          THEN /\ shells' = Append(shells, NewShell(k, Len(shells) + 1))
               /\ recs' = [recs EXCEPT ![client].SSHClient = Len(shells) + 1,
                                        ![client].IsConnected = TRUE]
               /\ lwlog' = SendMessage(lwlog, client, "connected",
                                       "SSH connection established")
               /\ lpc' = [lpc EXCEPT ![k] = "start_shell"]
          ELSE /\ lwlog' = SendMessage(lwlog, client, "error", o)
               /\ lpc' = [lpc EXCEPT ![k] = "loop"]
               /\ UNCHANGED << shells, recs >>
    /\ lcl' = [lcl EXCEPT ![k] = NoShell]
    /\ UNCHANGED << OtherVars, clients, lid, pingOn, lstdin, lnread >>

\* startShell: client := clients.GetClient(clientID); NewSession, StdinPipe,
\* StdoutPipe; go func() { output loop }(); RequestPty; Shell
LStartShell(k) ==
    /\ lpc[k] = "start_shell"
    /\ LET client == clients[lid[k]]
           t == recs[client].SSHClient
           s == IF shells[t].rec = 0 THEN t ELSE Len(shells) + 1
       IN  IF client = 0 \/ recs[client].SSHClient = 0
           THEN /\ lpc' = [lpc EXCEPT ![k] = "loop"]
                /\ UNCHANGED << lcl, shells, lwlog >>
           ELSE \E ok \in BOOLEAN :
                  /\ ok => ~TransportClosed(t)
                  /\ IF ok
                     THEN /\ shells' =
                               [u \in 1..(IF s = t THEN Len(shells) ELSE s) |->
                                  IF u = s
                                  THEN [by |-> shells[t].by, transport |-> t,
                                        rec |-> client, live |-> TRUE,
                                        pumping |-> TRUE, frags |-> << >>]
                                  ELSE shells[u]]
                          /\ lcl' = [lcl EXCEPT ![k] = [client |-> client, shell |-> s]]
                          /\ lpc' = [lpc EXCEPT ![k] = "shell"]
                          /\ UNCHANGED lwlog
                     ELSE /\ lwlog' = SendMessage(lwlog, client, "error",
                                                  "Failed to start shell")
                          /\ lpc' = [lpc EXCEPT ![k] = "loop"]
                          /\ UNCHANGED << lcl, shells >>
    /\ UNCHANGED << OtherVars, clients, recs, lid, pingOn, lstdin, lnread >>

\* startShell: client.Conn.ReadMessage() returned an error: return, with
\* the deferred session.Close(); handleMessage returns to HandleWebSocket
LShellReadFailed(k) ==
    /\ lpc[k] = "shell"
    /\ ConnFails(lcl[k].client)
    /\ shells' = [shells EXCEPT ![lcl[k].shell].live = FALSE]
    /\ lcl' = [lcl EXCEPT ![k] = NoShell]
    /\ lpc' = [lpc EXCEPT ![k] = "loop"]
    /\ UNCHANGED << OtherVars, clients, recs, lid, pingOn, lstdin, lwlog, lnread >>

\* startShell: client.Conn.ReadMessage() returned a message;
\* json.Unmarshal(message, &cmd) (on an error: continue);
\* stdin.Write([]byte(cmd.Command))
LShellRead(k) ==
    /\ lpc[k] = "shell"
    /\ lnread < MsgBudget
    /\ ~ConnFails(lcl[k].client)
    /\ \E m \in LegacyMsgs :
          /\ shells' = NoteFragment(shells, lcl[k].client, m)
          /\ lstdin' = IF m.type = "malformed" THEN lstdin
                        ELSE Append(lstdin, [shell |-> lcl[k].shell, via |-> "stdin",
                                             from |-> lcl[k].client, text |-> m.command])
    /\ lnread' = lnread + 1
    /\ UNCHANGED << OtherVars, clients, recs, lpc, lid, lcl, pingOn, lwlog >>

\* the "output" frames shell t has written
ShellOutputs(t) ==
    SelectSeq(lwlog[shells[t].rec], LAMBDA e : e.type = "output" /\ e.shell = t)

\* output goroutine of startShell: stdout.Read returned n bytes;
\* client.Mu.Lock(); client.Conn.WriteMessage(websocket.TextMessage, buf[:n])
LShellOutput(t) ==
    /\ shells[t].pumping
    /\ shells[t].live
    /\ ~TransportClosed(t)
    /\ Len(ShellOutputs(t)) < MaxChunks
    /\ lwlog' = [lwlog EXCEPT ![shells[t].rec] =
                    Append(@, [type |-> "output",
                               content |-> Chunk(Len(ShellOutputs(t)) + 1),
                               shell |-> t])]
    /\ UNCHANGED << OtherVars, clients, recs, lpc, lid, lcl, pingOn, shells, lstdin,
                    lnread >>

\* faulty variant of LShellClosed: the end of the shell cleans the connection up
LShellClosedCleans(t) ==
    /\ shells[t].pumping
    /\ lwlog' = SendMessage(lwlog, shells[t].rec, "shellClosed", "SSH shell closed")
    /\ shells' = [shells EXCEPT ![t].pumping = FALSE]
    /\ Cleanup(lid[shells[t].by])
    /\ UNCHANGED << OtherVars, lpc, lid, lcl, pingOn, lstdin, lnread >>
\* output goroutine of startShell: stdout.Read returned an error:
\* messageSender.SendMessage("shellClosed"); return
LShellClosed(t) ==
    /\ shells[t].pumping
    /\ lwlog' = SendMessage(lwlog, shells[t].rec, "shellClosed", "SSH shell closed")
    /\ shells' = [shells EXCEPT ![t].pumping = FALSE]
    /\ UNCHANGED << OtherVars, clients, recs, lpc, lid, lcl, pingOn, lstdin, lnread >>

\* the first peer connects
LAcceptFirst ==
    /\ Len(recs) = 0
    /\ LAccept

LegacySteps ==
    \/ \E k \in Conns :
          \/ LPeerGone(k)
          \/ LPingFailed(k)
          \/ LReadFailed(k)
          \/ LHandleMessage(k)
          \/ LSetup(k)
          \/ LDial(k)
          \/ LStartShell(k)
          \/ LShellReadFailed(k)
          \/ LShellRead(k)
    \/ \E t \in 1..Len(shells) :
          \/ LShellOutput(t)
          \/ LShellClosed(t)

\* one peer
LegacyNext == LAcceptFirst \/ LegacySteps

LegacySpec == Init /\ [][LegacyNext]_vars

\* several peers
LegacyMultiNext == LAccept \/ LegacySteps

LegacyMultiSpec == Init /\ [][LegacyMultiNext]_vars

----------------------------------------------------------------------------
(* The registry-driven handler at the grain of its two locks: the registry *)
(* lock clients.mu (client.go:20) and the record's client.Mu.  One         *)
(* connection with its three goroutines; a step is one Lock, or the        *)
(* critical section up to its Unlock, or the code between two sections.    *)
(* lk.bare collects every access to IsConnected or CommandBuffer made by a *)
(* goroutine that does not hold client.Mu.  SendMessage and SendError use  *)
(* the sender's own lock (spec.md, SafeSender), which is neither of these. *)

LkAt(t, pos) == lk.pc[t] = pos
LkGoto(l, t, pos) == [l EXCEPT !.pc[t] = pos]

\* goroutine t reads or writes a guarded field of the record inside function fn
Touch(l, t, field, fn) ==
    IF l.Mu = t THEN l ELSE [l EXCEPT !.bare = @ \cup {[field |-> field, by |-> fn]}]

LkUnchanged ==
    UNCHANGED << Hv, Pv, cpc, Rv, Xv, Sv, Mv, Ov, Wv, Ev, Nv, clients, recs, mu, rpc,
                 rarg, rgot, Gv, peerOf, logOf, auth >>

\* clients.AddClient(clientID, client): mu.Lock(); clients[id] = client;
\* mu.Unlock(); then the handler starts the ping goroutine
LkAddClient ==
    /\ \/ /\ LkAt("loop", << "add" >>)
          /\ lk.mu = "none"
          /\ lk' = [LkGoto(lk, "loop", << "added" >>) EXCEPT !.mu = "loop"]
       \/ /\ LkAt("loop", << "added" >>)
          /\ lk' = [LkGoto(LkGoto(lk, "loop", << "read" >>), "ping", << "p_lock" >>)
                       EXCEPT !.mu = "none", !.reg = TRUE]
    /\ LkUnchanged

\* the message loop: conn.ReadMessage(); an error returns through the deferred
\* CleanupConnection, a message goes to handleMessage, which calls GetClient
LkRead ==
    /\ LkAt("loop", << "read" >>)
    /\ \/ \E k \in {"config", "command", "other"} :
             lk' = [LkGoto(lk, "loop", << "get", "hm" >>) EXCEPT !.kind = k]
       \/ lk' = LkGoto(lk, "loop", << "cl_lock" >>)
    /\ LkUnchanged

\* where the caller of GetClient goes on: handleMessage (hm),
\* SetupSSHConnection (su), startShell (ss); a nil client returns to the loop
AfterGet(l, site) ==
    IF ~l.reg THEN << "read" >>
    ELSE CASE site = "hm" -> (CASE l.kind = "config" -> << "get", "su" >>
                                [] l.kind = "command" -> << "cmd_lock" >>
                                [] OTHER -> << "read" >>)
           [] site = "su" -> << "su_check" >>
           [] site = "ss" -> << "ss_session" >>

\* clients.GetClient(id): mu.Lock(); defer mu.Unlock(); return clients[id]
LkGetClient ==
    /\ \E site \in {"hm", "su", "ss"} :
          \/ /\ LkAt("loop", << "get", site >>)
             /\ lk.mu = "none"
             /\ lk' = [LkGoto(lk, "loop", << "got", site >>) EXCEPT !.mu = "loop"]
          \/ /\ LkAt("loop", << "got", site >>)
             /\ lk' = [LkGoto(lk, "loop", AfterGet(lk, site)) EXCEPT !.mu = "none"]
    /\ LkUnchanged

\* handleMessage, "command": client.Mu.Lock(); CommandBuffer += cmd.Command;
\* if cmd.Command == "\n" { ExecuteCommand, which reads IsConnected;
\* CommandBuffer = "" }; client.Mu.Unlock()
LkHandleCommand ==
    /\ \/ /\ LkAt("loop", << "cmd_lock" >>)
          /\ lk.Mu = "none"
          /\ lk' = [LkGoto(lk, "loop", << "cmd_body" >>) EXCEPT !.Mu = "loop"]
       \/ /\ LkAt("loop", << "cmd_body" >>)
          /\ \E flush \in BOOLEAN :
                lk' = [LkGoto(IF flush
                              THEN Touch(Touch(lk, "loop", "CommandBuffer", "handleMessage"),
                                         "loop", "IsConnected", "ExecuteCommand")
                              ELSE Touch(lk, "loop", "CommandBuffer", "handleMessage"),
                              "loop", << "read" >>)
                          EXCEPT !.Mu = "none"]
    /\ LkUnchanged

\* SetupSSHConnection after its GetClient: the test of client.IsConnected
\* (line 60), the key and the dial, then client.Mu.Lock(); SSHClient = ...;
\* IsConnected = true; client.Mu.Unlock(), and the call of startShell
LkSetup ==
    /\ \/ /\ LkAt("loop", << "su_check" >>)
          /\ lk' = LkGoto(Touch(lk, "loop", "IsConnected", "SetupSSHConnection"), "loop",
                          IF lk.IsConnected THEN << "read" >> ELSE << "dial" >>)
       \/ /\ LkAt("loop", << "dial" >>)
          /\ \E ok \in BOOLEAN :
                lk' = LkGoto(lk, "loop", IF ok THEN << "set_lock" >> ELSE << "read" >>)
       \/ /\ LkAt("loop", << "set_lock" >>)
          /\ lk.Mu = "none"
          /\ lk' = [LkGoto(lk, "loop", << "set_body" >>) EXCEPT !.Mu = "loop"]
       \/ /\ LkAt("loop", << "set_body" >>)
          /\ lk' = [LkGoto(Touch(lk, "loop", "IsConnected", "SetupSSHConnection"),
                           "loop", << "get", "ss" >>)
                       EXCEPT !.Mu = "none", !.SSHClient = TRUE, !.IsConnected = TRUE]
    /\ LkUnchanged

\* startShell after its GetClient: the session and its pipes (a failure
\* returns), the output goroutine, then the loop that reads the peer and
\* writes to stdin until a read fails
LkStartShell ==
    /\ \/ /\ LkAt("loop", << "ss_session" >>)
          /\ \E ok \in BOOLEAN :
                lk' = IF ok
                      THEN LkGoto(LkGoto(lk, "loop", << "shell" >>), "out", << "o_read" >>)
                      ELSE LkGoto(lk, "loop", << "read" >>)
       \/ /\ LkAt("loop", << "shell" >>)
          /\ lk' = LkGoto(lk, "loop", << "read" >>)
    /\ LkUnchanged

\* the output goroutine of startShell: stdout.Read; on an error "shellClosed"
\* is sent and the goroutine ends; otherwise client.Mu.Lock();
\* client.Conn.WriteMessage(...); client.Mu.Unlock()
LkOutput ==
    /\ \/ /\ LkAt("out", << "o_read" >>)
          /\ \E ok \in BOOLEAN :
                lk' = LkGoto(lk, "out", IF ok THEN << "o_lock" >> ELSE << "ended" >>)
       \/ /\ LkAt("out", << "o_lock" >>)
          /\ lk.Mu = "none"
          /\ lk' = [LkGoto(lk, "out", << "o_write" >>) EXCEPT !.Mu = "out"]
       \/ /\ LkAt("out", << "o_write" >>)
          /\ lk' = [LkGoto(lk, "out", << "o_read" >>) EXCEPT !.Mu = "none"]
    /\ LkUnchanged

\* the ping goroutine: Sleep; client.Mu.Lock(); WriteMessage(Ping); on an
\* error client.Mu.Unlock(); CleanupConnection; return; else client.Mu.Unlock()
LkPing ==
    /\ \/ /\ LkAt("ping", << "p_lock" >>)
          /\ lk.Mu = "none"
          /\ lk' = [LkGoto(lk, "ping", << "p_write" >>) EXCEPT !.Mu = "ping"]
       \/ /\ LkAt("ping", << "p_write" >>)
          /\ \E ok \in BOOLEAN :
                lk' = [LkGoto(lk, "ping", IF ok THEN << "p_lock" >> ELSE << "cl_lock" >>)
                          EXCEPT !.Mu = "none"]
    /\ LkUnchanged

\* faulty variant of LkCleanup: the record's Mu is taken inside clients.mu
LkCleanupNested(t) ==
    /\ \/ /\ LkAt(t, << "cl_lock" >>)
          /\ lk.mu = "none"
          /\ lk' = [LkGoto(lk, t, << "cl_body" >>) EXCEPT !.mu = t]
       \/ /\ LkAt(t, << "cl_body" >>)
          /\ lk.Mu = "none"
          /\ lk' = [LkGoto(lk, t, << "cl_close" >>) EXCEPT !.Mu = t]
       \/ /\ LkAt(t, << "cl_close" >>)
          /\ lk' = [LkGoto(lk, t, << "ended" >>)
                       EXCEPT !.mu = "none", !.Mu = "none", !.reg = FALSE]
    /\ LkUnchanged
\* clients.CleanupConnection(id): mu.Lock(); defer mu.Unlock(); if the entry
\* exists { SSHClient.Close(); Conn.Close(); delete }
LkCleanup(t) ==
    /\ \/ /\ LkAt(t, << "cl_lock" >>)
          /\ lk.mu = "none"
          /\ lk' = [LkGoto(lk, t, << "cl_body" >>) EXCEPT !.mu = t]
       \/ /\ LkAt(t, << "cl_body" >>)
          /\ lk' = [LkGoto(lk, t, << "ended" >>) EXCEPT !.mu = "none", !.reg = FALSE]
    /\ LkUnchanged

LockNext ==
    \/ LkAddClient
    \/ LkRead
    \/ LkGetClient
    \/ LkHandleCommand
    \/ LkSetup
    \/ LkStartShell
    \/ LkOutput
    \/ LkPing
    \/ \E t \in {"loop", "ping"} : LkCleanup(t)

LockSpec == Init /\ [][LockNext]_vars

----------------------------------------------------------------------------
(* The output pump of src/internal/services/ssh.go, the earlier generation *)
(* of SSHSession.HandleOutput, next to its handler.  Of the handler only   *)
(* what reaches the pump is kept: the start of the pump, the return of the *)
(* control loop and the deferred session.Close(), cancel(), conn.Close().  *)

\* HandleWebSocket of services/ssh.go up to the loop, every step succeeding:
\* Upgrade, AddClient, ReadJSON, StartSSHSession; go session.HandleOutput(ctx)
SvcEstablish ==
    /\ hpc = "start"
    /\ clientID' = "k1"
    /\ AddClient("k1")
    /\ dialed' = TRUE
    /\ established' = TRUE
    /\ hpc' = "read"
    /\ ppc' = "select"
    /\ UNCHANGED << hafter, hw, pafter, pw, cpc, deletes, Xv, startErr, Mv, Ov, Wv, Ev,
                    Nv, Lv >>

\* the control loop returns: ctx.Done(), session.Done, a failed ReadJSON or
\* the exit line
SvcLoopReturns ==
    /\ hpc = "read"
    /\ hpc' = "defer_session"
    /\ UNCHANGED << hafter, hw, Pv, cpc, Rv, Xv, Sv, Mv, Ov, Wv, Ev, Nv, Lv >>

\* n, err := s.stdout.Read(buf) returned an error other than io.EOF: break
\* leaves the select, and the for loop goes on with the next select
SvcPumpReadError ==
    /\ ppc = "read"
    /\ sawReadError' = TRUE
    /\ ppc' = "select"
    /\ UNCHANGED << Hv, pafter, pw, cpc, Rv, Xv, Sv, Mv, Ov, Wv, Ev, resizeLog, logs,
                    Lv >>

SvcNext ==
    \/ SvcEstablish
    \/ SvcLoopReturns
    \/ DeferSessionClose
    \/ DeferSessionReturn
    \/ DeferCancel
    \/ DeferConnClose
    \/ Close("ctl")
    \/ ExternalCancel
    \/ PumpSelect
    \/ PumpReadChunk
    \/ PumpReadEOF
    \/ SvcPumpReadError
    \/ PumpWriteBegin
    \/ PumpWriteEnd
    \/ PumpClose
    \/ PumpReturn
    \/ Close("pump")

SvcSpec == Init /\ [][SvcNext]_vars

----------------------------------------------------------------------------
(* utils.GetSSHAuthMethods(config), in its two versions:                   *)
(* src/internal/utils/get_ssh_auth_methods.go and src/internal/utils/util.go. *)
(* Private-key material is its kind and, when encrypted, its passphrase.   *)

\* the credentials of an SSHConfig; Host, Port and User are not read
AuthConfigs ==
    { [Password |-> p, PrivateKey |-> k] :
         p \in {"", "p1", "p2"},
         k \in { [kind |-> "", pass |-> ""], [kind |-> "plain", pass |-> ""],
                 [kind |-> "garbage", pass |-> ""], [kind |-> "encrypted", pass |-> "p1"],
                 [kind |-> "encrypted", pass |-> "p2"] } }

\* ssh.ParsePrivateKey(pem): a signer for an unencrypted key, an error for
\* an encrypted key or for bytes that are no key
ParsePrivateKey(key) ==
    [key |-> key, err |-> key.kind # "plain"]

\* ssh.ParsePrivateKeyWithPassphrase(pem, passphrase): a signer for a key
\* encrypted with that passphrase, an error otherwise (also for a key that
\* is not encrypted)
ParsePrivateKeyWithPassphrase(key, passphrase) ==
    [key |-> key, err |-> ~(key.kind = "encrypted" /\ key.pass = passphrase)]

\* the methods appended for config.PrivateKey != "" (both versions)
KeyMethods(config) ==
    LET parsed == IF config.Password # ""
                  THEN ParsePrivateKeyWithPassphrase(config.PrivateKey, config.Password)
                  ELSE ParsePrivateKey(config.PrivateKey)
    IN  IF parsed.err THEN << >> ELSE << [method |-> "publickey", with |-> parsed.key] >>

\* get_ssh_auth_methods.go: if config.Password != "" { append Password };
\* if config.PrivateKey != "" { parse; on an error return; append PublicKeys }
GetSSHAuthMethods(config) ==
    (IF config.Password # ""
     THEN << [method |-> "password", with |-> config.Password] >> ELSE << >>)
    \o (IF config.PrivateKey.kind # "" THEN KeyMethods(config) ELSE << >>)

\* util.go: if config.Password != "" { append Password }
\* else if config.PrivateKey != "" { parse; on an error return; append PublicKeys }
GetSSHAuthMethodsUtil(config) ==
    IF config.Password # ""
    THEN << [method |-> "password", with |-> config.Password] >>
    ELSE IF config.PrivateKey.kind # "" THEN KeyMethods(config) ELSE << >>

\* one call of GetSSHAuthMethods, of either version
ResolveAuth ==
    /\ Len(auth) < MaxResolves
    /\ \E config \in AuthConfigs, version \in {"get_ssh_auth_methods.go", "util.go"} :
          auth' = Append(auth, [version |-> version, config |-> config,
                                methods |-> IF version = "util.go"
                                            THEN GetSSHAuthMethodsUtil(config)
                                            ELSE GetSSHAuthMethods(config)])
    /\ UNCHANGED << Hv, Pv, cpc, Rv, Xv, Sv, Mv, Ov, Wv, Ev, Nv, clients, recs, mu, rpc,
                    rarg, rgot, Gv, peerOf, logOf, lk >>

AuthSpec == Init /\ [][ResolveAuth]_vars

----------------------------------------------------------------------------
(* Two runs of the context-driven handler that meet the same failures at   *)
(* the same places and differ only in the causes wrapped by the AppErrors. *)
(* Neither HandleWebSocket nor HandleOutput branches on a cause, so the    *)
(* two runs take the same steps; what each run logs and sends for a        *)
(* failure is computed with the operators the handler's actions use.       *)

\* the places where an AppError is logged and reported to the peer, with the
\* goroutine that does it; "SSH_SESSION_FAILED" wraps the AppError of the
\* step of StartSSHSession that failed
ReportSites ==
    { [at |-> a, by |-> "ctl"] :
          a \in { "MISSING_CLIENT_ID", "INITIAL_READ", "SSH_SESSION_FAILED",
                  "WS_READ_FAILED", "RESIZE_FAILED", "UNKNOWN_MESSAGE_TYPE" } }
    \cup { [at |-> "OUTPUT_READ_FAILED", by |-> "pump"] }

\* the AppError made at a site; o is the step of StartSSHSession that failed
\* and err the cause
ReportedError(site, o, err) ==
    IF site.at = "SSH_SESSION_FAILED"
    THEN StartFailure(NewAppError(o, StartMessage(o), err))
    ELSE AppErrorAt(site.at, err)

\* both runs meet a failure at the same site, each with its own cause:
\* appErr.Log(); WriteJSON(utils.WSMessage{Type: "error", Content: appErr.Message})
ReportFailure ==
    /\ Len(peerOf[1]) < MaxFailures
    /\ \E site \in ReportSites, o \in StartOutcomes \ {"ok"}, cs \in [Runs -> CauseTexts] :
          /\ logOf' = [r \in Runs |->
                          Logged(logOf[r], site.by, ReportedError(site, o, cs[r]))]
          /\ peerOf' = [r \in Runs |->
                           Append(peerOf[r], ErrorMessage(ReportedError(site, o, cs[r])))]
    /\ UNCHANGED << Hv, Pv, cpc, Rv, Xv, Sv, Mv, Ov, Wv, Ev, Nv, clients, recs, mu, rpc,
                    rarg, rgot, Gv, auth, lk >>

CauseSpec == Init /\ [][ReportFailure]_vars

----------------------------------------------------------------------------
(* Properties.                                                             *)

\* the contents of the "output" messages the pump has written, in order
OutputsWritten ==
    LET outs == SelectSeq(wlog["pump"], LAMBDA e : e.type = "output")
    IN  [i \in 1..Len(outs) |-> outs[i].content]

\* the error messages written by either goroutine
ErrorsWritten(p) == SelectSeq(wlog[p], LAMBDA e : e.type = "error")

\* the contents written to the shell's stdin, in order
StdinWritten == [i \in 1..Len(stdinLog) |-> stdinLog[i].content]

\* both goroutines of an established session have returned
SessionOver == established /\ hpc = "returned" /\ ppc = "returned"

\* C1: when an established session is over, whatever ended it, Close has been
\* called exactly once on the SSH transport, on the shell handle and on the
\* peer channel.
C1_EachResourceClosedOnce ==
    SessionOver =>
        /\ closes["client"] = 1
        /\ closes["session"] = 1
        /\ closes["conn"] = 1

\* C2: however many Close calls the pump, the control loop and the deferred
\* cleanup issue, Done is closed at most once (no close of a closed channel),
\* the teardown body runs at most once, and when a Close call has returned
\* the whole teardown has run exactly once.
C2_CloseOnce ==
    /\ doneCloses <= 1
    /\ established => /\ closes["session"] <= 1
                      /\ closes["client"] <= 1
                      /\ closes["conn"] <= (IF hpc = "returned" THEN 2 ELSE 1)
    /\ (\E p \in Procs : cpc[p] = "ret") =>
            /\ doneCloses = 1
            /\ closes["session"] = 1
            /\ closes["client"] = 1
            /\ closes["conn"] >= 1

\* two Close calls are in progress at once: one runs the teardown, the other
\* waits for the once mutex
C2_Witness ==
    /\ cpc["ctl"] = "f_client"
    /\ cpc["pump"] = "lock"
    /\ doneCloses = 1

\* C3: once the handler of a registered connection has returned, its
\* identifier is absent from the registry and was deleted exactly once.
C3_RemovedAfterReturn ==
    (hpc = "returned" /\ clientID # "") =>
        /\ clientID \notin registry
        /\ deletes = 1

\* C4: no WriteJSON on the peer channel and no write to the shell's stdin is
\* issued after Done has fired.
C4_NoWriteAfterDone ==
    /\ \A p \in Procs : \A i \in 1..Len(wlog[p]) : ~wlog[p][i].afterDone
    /\ \A i \in 1..Len(stdinLog) : ~stdinLog[i].afterDone

\* C5: the pump and the control loop are never inside a WriteJSON on the peer
\* channel at the same time.
C5_WritesExclusive == Cardinality(writing) <= 1

\* C6: the "output" messages written by the pump are the chunks read from
\* stdout, in the same order, one message per chunk (the chunk just read and
\* not yet written excepted), and each one written before Done fired went to
\* an open peer channel.
C6_OutputOrder ==
    /\ chunksRead = IF ppc = "wbegin" /\ pw.Type = "output"
                    THEN Append(OutputsWritten, pw.Content)
                    ELSE OutputsWritten
    /\ \A i \in 1..Len(wlog["pump"]) :
          (wlog["pump"][i].type = "output" /\ ~wlog["pump"][i].afterDone)
              => wlog["pump"][i].delivered

\* two chunks have been read and written, and the pump is back at its select
C6_Witness ==
    /\ Len(chunksRead) = 2
    /\ OutputsWritten = << Chunk(1), Chunk(2) >>
    /\ ppc = "select"

\* C7: the contents written to stdin are the contents of the "input" messages
\* read, in the order read, none twice; only the message being processed, or
\* the one that completed the exit line, is not written.
C7_InputOrder ==
    /\ Len(StdinWritten) <= Len(inputsRead)
    /\ StdinWritten = SubSeq(inputsRead, 1, Len(StdinWritten))
    /\ Len(inputsRead) - Len(StdinWritten) <= 1
    /\ Len(inputsRead) > Len(StdinWritten) =>
          \/ hpc \in {"dispatch", "send"}
          \/ CommandBuffer = ExitLine

\* two different inputs have been read and written to stdin
C7_Witness ==
    /\ Len(stdinLog) = 2
    /\ stdinLog[1].content = << "\r" >>
    /\ stdinLog[2].content = << "e", "x", "i", "t" >>
    /\ hpc = "select"

\* C8: in an established session, after a read of the peer channel failed or
\* a read of stdout returned end-of-stream, eventually Done has fired and both
\* the control loop and the pump have returned.
C8_Terminates ==
    (established /\ (sawPeerFail \/ sawEOF))
        ~> (DoneFired /\ hpc = "returned" /\ ppc = "returned")

\* the shell ended its output while the control loop was waiting for a
\* message, and both goroutines have returned without any cancellation
C8_Witness ==
    /\ sawEOF
    /\ ~extCancel
    /\ nread = 0
    /\ DoneFired
    /\ hpc = "returned"
    /\ ppc = "returned"

\* C9: after the caller cancels the context while the control loop waits for
\* a peer message and the pump waits for shell output, both eventually return
\* and the session is closed.
C9_CancelUnblocks ==
    (extCancel /\ hpc = "read" /\ ppc = "read")
        ~> (hpc = "returned" /\ ppc = "returned" /\ DoneFired)

\* C10: when the dial fails, the peer is sent exactly one error message, with
\* the content "Failed to connect to SSH server".
C10_DialFailureMessage ==
    (hpc = "returned" /\ startErr.Code = "SSH_CONNECTION_FAILED") =>
        /\ Len(ErrorsWritten("pump")) = 0
        /\ Len(ErrorsWritten("ctl")) = 1
        /\ ErrorsWritten("ctl")[1].content = "Failed to connect to SSH server"

\* C11: when StartSSHSession returns an error after the dial succeeded, the
\* SSH transport it opened has been closed.
C11_TransportClosedOnFailure ==
    (hpc = "started" /\ dialed /\ startErr # NoErr) => closes["client"] >= 1

\* the error messages the pump has written, and the one it is about to write
PumpErrorsIssued ==
    Len(ErrorsWritten("pump")) + (IF ppc = "wbegin" /\ pw.Type = "error" THEN 1 ELSE 0)

\* what holds at every moment after a failed read of stdout
PumpReadFailureHandled ==
    /\ sawEOF =>
          /\ PumpErrorsIssued = 0
          /\ ppc \in {"close", "closing", "returned"}
    /\ sawReadError =>
          /\ PumpErrorsIssued = 1
          /\ ppc \in {"wbegin", "wend", "close", "closing", "returned"}
          /\ ppc = "wbegin" => pw.Content = "Failed to read SSH session output"
          /\ ppc # "wbegin" =>
                ErrorsWritten("pump")[1].content = "Failed to read SSH session output"
          /\ cpc["pump"] # "idle" => Len(ErrorsWritten("pump")) = 1
    /\ ((sawEOF \/ sawReadError) /\ ppc = "returned") =>
          /\ DoneFired
          /\ closes["session"] >= 1
          /\ closes["client"] >= 1
          /\ ConnClosed

\* C12: a stdout read that returns end-of-stream makes the pump close the
\* session without writing any error message; a read that fails otherwise
\* makes it write exactly one error message, "Failed to read SSH session
\* output", and close the session after that write; in both cases the pump
\* eventually returns, with the session closed.
C12_PumpReadFailure ==
    /\ []PumpReadFailureHandled
    /\ (sawEOF \/ sawReadError) ~> (ppc = "returned")

\* after one chunk the read failed; the pump reported it on the open channel,
\* closed the session and returned
C12_Witness ==
    /\ sawReadError
    /\ Len(chunksRead) = 1
    /\ Len(ErrorsWritten("pump")) = 1
    /\ ErrorsWritten("pump")[1].delivered
    /\ ppc = "returned"
    /\ DoneFired

\* a message that is neither shell output nor an error report
IsNotification(e) == e.type \notin {"output", "error"}

\* C13: when the shell's output reached end-of-stream and the peer channel has
\* been closed, a terminal notification was delivered to the peer before.
C13_TerminalNotification ==
    (sawEOF /\ ConnClosed) =>
        \E p \in Procs : \E i \in 1..Len(wlog[p]) :
            IsNotification(wlog[p][i]) /\ wlog[p][i].delivered

\* C14: when shell output has been written to the peer of an established
\* session, a "connected" message was written to it before.
C14_ConnectedBeforeOutput ==
    (established /\ Len(OutputsWritten) > 0) =>
        \E p \in Procs : \E i \in 1..Len(wlog[p]) : wlog[p][i].type = "connected"

\* the error messages with content c the handler has written or is writing
HandlerErrorsIssued(c) ==
    Len(SelectSeq(wlog["ctl"], LAMBDA e : e.type = "error" /\ e.content = c))
        + (IF hpc = "wbegin" /\ hw.Content = c THEN 1 ELSE 0)

\* the WindowChange calls that returned an error
ResizeFailures == Len(SelectSeq(resizeLog, LAMBDA e : ~e.ok))

\* the control loop takes a step at the given position
HandlerLeaves(pos) == hpc = pos /\ hpc' # hpc

\* the handler is writing the error message with content c
HandlerReporting(c) == hpc \in {"wbegin", "wend"} /\ hw.Content = c

\* what the session keeps through a reported, non-fatal failure
SessionUntouched ==
    UNCHANGED << cpc, onceDone, onceMu, doneCloses, closes, ctxDone, CommandBuffer,
                 stdinLog, chunksRead, ppc >>

\* C15: the step that handles a "resize" message with rows r and cols c calls
\* WindowChange exactly once, with (r, c), and no other step calls it; when
\* the call fails the handler writes exactly one "Failed to resize terminal"
\* error, closes nothing, and goes back to the select of the message loop.
C15_Resize ==
    /\ [][ (HandlerLeaves("dispatch") /\ msg.Type = "resize") =>
              /\ Len(resizeLog') = Len(resizeLog) + 1
              /\ resizeLog'[Len(resizeLog')].rows = msg.Rows
              /\ resizeLog'[Len(resizeLog')].cols = msg.Cols
              /\ SubSeq(resizeLog', 1, Len(resizeLog)) = resizeLog
              /\ SessionUntouched
              /\ IF resizeLog'[Len(resizeLog')].ok
                 THEN hpc' = "select" /\ UNCHANGED << hw, wlog >>
                 ELSE /\ hpc' = "wbegin"
                      /\ hw' = [Type |-> "error", Content |-> "Failed to resize terminal"]
                      /\ hafter' = "select" ]_vars
    /\ [][ resizeLog' # resizeLog => (hpc = "dispatch" /\ msg.Type = "resize") ]_vars
    /\ [][ (HandlerReporting("Failed to resize terminal") /\ hpc' # hpc) =>
              /\ SessionUntouched
              /\ UNCHANGED resizeLog
              /\ hpc = "wend" => hpc' = "select" ]_vars
    /\ [](HandlerErrorsIssued("Failed to resize terminal") = ResizeFailures)

\* a resize to 40 rows and 120 columns failed, the peer was told once, and the
\* control loop of the still open session waits for the next message
C15_Witness ==
    /\ resizeLog = << [rows |-> 40, cols |-> 120, ok |-> FALSE] >>
    /\ Len(wlog["ctl"]) = 1
    /\ wlog["ctl"][1].content = "Failed to resize terminal"
    /\ wlog["ctl"][1].delivered
    /\ hpc = "read"
    /\ ~DoneFired
    /\ closes["conn"] = 0

\* peer messages read so far whose type is neither "input" nor "resize"
UnknownRead ==
    nread - Len(inputsRead) - Len(resizeLog)
          - (IF hpc = "dispatch" /\ msg.Type = "resize" THEN 1 ELSE 0)

\* C16: the step that handles a message whose type is neither "input" nor
\* "resize" starts the write of one "Unknown message type received" error and
\* changes nothing else: stdin, the resize calls, the command buffer, Done
\* and the resources are as before, and after the write the handler is back
\* at the select of the message loop; one such error is written per message.
C16_UnknownMessage ==
    /\ [][ (HandlerLeaves("dispatch") /\ msg.Type \notin {"input", "resize"}) =>
              /\ hpc' = "wbegin"
              /\ hw' = [Type |-> "error", Content |-> "Unknown message type received"]
              /\ hafter' = "select"
              /\ SessionUntouched
              /\ UNCHANGED << resizeLog, clientMu, wlog >> ]_vars
    /\ [][ (HandlerReporting("Unknown message type received") /\ hpc' # hpc) =>
              /\ SessionUntouched
              /\ UNCHANGED << resizeLog, clientMu >>
              /\ hpc = "wend" => hpc' = "select" ]_vars
    /\ [](HandlerErrorsIssued("Unknown message type received")
            + (IF hpc = "dispatch" /\ msg.Type \notin {"input", "resize"} THEN 1 ELSE 0)
          = UnknownRead)

\* a "ping" message was answered with one error on the open channel, and the
\* control loop has read the following message of the same session
C16_Witness ==
    /\ nread = 2
    /\ hpc = "dispatch"
    /\ msg.Type = "input"
    /\ Len(wlog["ctl"]) = 1
    /\ wlog["ctl"][1].content = "Unknown message type received"
    /\ wlog["ctl"][1].delivered
    /\ stdinLog = << >>
    /\ resizeLog = << >>
    /\ CommandBuffer = << >>
    /\ ~DoneFired

\* C17: in every registry state and for every identifier, CleanupConnection
\* called a second time changes nothing and closes nothing; called for an
\* absent identifier it changes nothing; called for a present one it closes
\* the peer channel of the record once, its SSH transport once if it has
\* one, touches no other record and removes the entry.
C17_CleanupIdempotent ==
    \A id \in RegIds :
        LET once == CleanupConnection(RegState, id)
            twice == CleanupConnection(once, id)
            c == clients[id]
        IN  /\ twice = once
            /\ c = 0 => once = RegState
            /\ c # 0 =>
                  /\ once.clients = [clients EXCEPT ![id] = 0]
                  /\ once.recs[c].connCloses = recs[c].connCloses + 1
                  /\ once.recs[c].sshCloses =
                        recs[c].sshCloses + (IF recs[c].SSHClient # 0 THEN 1 ELSE 0)
                  /\ \A o \in 1..Len(recs) : o # c => once.recs[o] = recs[o]

\* one record with an SSH transport has been cleaned up and its identifier
\* is absent, while another record is still registered
C17_Witness ==
    /\ Len(recs) = 2
    /\ recs[1].SSHClient # 0 /\ recs[1].sshCloses = 1 /\ recs[1].connCloses = 1
    /\ \A id \in RegIds : clients[id] # 1
    /\ \E id \in RegIds : clients[id] = 2
    /\ \A p \in RegProcs : rpc[p] = "idle"

\* positions between mu.Lock() and mu.Unlock()
InRegistry(p) == rpc[p] \in {"get", "add", "cleanup", "close_ssh", "close_conn", "delete", "unlock"}

\* C18: at most one goroutine is between mu.Lock() and mu.Unlock() of
\* GetClient, AddClient and CleanupConnection, and the record GetClient has
\* just read from the map is nil or one on which no Close has been called.
C18_RegistryExclusive ==
    /\ Cardinality({p \in RegProcs : InRegistry(p)}) <= 1
    /\ \A p \in RegProcs :
          (rpc[p] = "unlock" /\ rarg[p].op = "get" /\ rgot[p] # 0) =>
              /\ recs[rgot[p]].sshCloses = 0
              /\ recs[rgot[p]].connCloses = 0

\* GetClient has read a registered record while another goroutine waits for
\* the mutex to clean that identifier up
C18_Witness ==
    /\ rpc["g1"] = "unlock" /\ rarg["g1"].op = "get" /\ rgot["g1"] # 0
    /\ rpc["g2"] = "lock" /\ rarg["g2"].op = "cleanup" /\ rarg["g2"].id = rarg["g1"].id

\* the text ends with a line terminator
EndsLine(text) == text # << >> /\ text[Len(text)] = "\n"

RECURSIVE FlushedLines(_, _)
\* the deliveries line buffering makes of the fragments fs, acc being the
\* buffer: one per fragment that ends a line, the concatenation since the
\* last one
FlushedLines(fs, acc) ==
    IF fs = << >> THEN << >>
    ELSE IF EndsLine(Head(fs))
         THEN << acc \o Head(fs) >> \o FlushedLines(Tail(fs), << >>)
         ELSE FlushedLines(Tail(fs), acc \o Head(fs))

RECURSIVE Unflushed(_, _)
\* the buffer line buffering leaves after the fragments fs
Unflushed(fs, acc) ==
    IF fs = << >> THEN acc
    ELSE Unflushed(Tail(fs), IF EndsLine(Head(fs)) THEN << >> ELSE acc \o Head(fs))

\* the command texts delivered to shell t, in order
DeliveredTo(t) ==
    LET ds == SelectSeq(lstdin, LAMBDA e : e.shell = t)
    IN  [i \in 1..Len(ds) |-> ds[i].text]

\* C19: the deliveries made to a live shell are exactly the flushed lines of
\* the "command" fragments its peer sent since the shell started: one
\* delivery per "\n" fragment, holding the fragments since the previous one,
\* and the command buffer holds the fragments after the last "\n".
C19_LineBuffered ==
    \A t \in 1..Len(shells) :
        shells[t].live =>
            /\ DeliveredTo(t) = FlushedLines(shells[t].frags, << >>)
            /\ recs[shells[t].rec].CommandBuffer = Unflushed(shells[t].frags, << >>)

\* C20: a command delivered to a shell was read from the peer channel of the
\* connection whose config message dialed it, and the output of a shell is
\* written to that peer channel only.
C20_SessionsIsolated ==
    /\ \A i \in 1..Len(lstdin) : lstdin[i].from = shells[lstdin[i].shell].by
    /\ \A k \in Conns : \A i \in 1..Len(lwlog[k]) :
          lwlog[k][i].type = "output" => shells[lwlog[k][i].shell].by = k

\* the Message texts of the AppErrors the handler and the pump report
ErrorTexts ==
    { ReportedError(site, o, Nil).Message :
          site \in ReportSites, o \in StartOutcomes \ {"ok"} }

\* the strings a rendered error or a log line is made of
Pieces(line) == { line[i] : i \in 1..Len(line) }

AppErrorsIn(line) == Cardinality({ i \in DOMAIN line : line[i] = "[" })

\* goroutine p meets a failure in this step: a read from the peer, the start
\* of the session, a resize, a message of unknown type or a write to stdin
\* (control loop), a read of the shell's output (pump)
MeetsFailure(p) ==
    IF p = "pump" THEN ~sawReadError /\ sawReadError'
    ELSE \/ ~sawPeerFail /\ sawPeerFail'
         \/ HandlerLeaves("read_init") /\ hpc' # "start_ssh"
         \/ HandlerLeaves("started") /\ startErr # NoErr
         \/ Len(resizeLog') > Len(resizeLog) /\ ~resizeLog'[Len(resizeLog')].ok
         \/ HandlerLeaves("dispatch") /\ msg.Type \notin {"input", "resize"}
         \/ Len(stdinLog') > Len(stdinLog) /\ ~stdinLog'[Len(stdinLog')].ok

\* goroutine p starts the write of one error message carrying text
StartsErrorWrite(p, text) ==
    IF p = "pump" THEN ppc' = "wbegin" /\ pw' = [Type |-> "error", Content |-> text]
                  ELSE hpc' = "wbegin" /\ hw' = [Type |-> "error", Content |-> text]

\* C22: once the connection is registered, a step in which a goroutine meets
\* a failure logs exactly one line, the line of exactly one AppError, and
\* starts the write of exactly one error message to the peer; a step that
\* meets no failure logs nothing.
C22_OneErrorPerFailure ==
    [][ \A p \in Procs :
          IF hpc \in {"start", "check_id"} THEN TRUE
          ELSE IF MeetsFailure(p)
          THEN /\ Len(logs'[p]) = Len(logs[p]) + 1
               /\ logs'[p][Len(logs'[p])].code # ""
               /\ AppErrorsIn(logs'[p][Len(logs'[p])].line) = 1
               /\ \E text \in ErrorTexts : StartsErrorWrite(p, text)
          ELSE logs'[p] = logs[p] ]_vars

\* the writes to stdin that failed
StdinWriteFailures == Len(SelectSeq(stdinLog, LAMBDA e : ~e.ok))

\* C30: the step in which SendInput's write to stdin fails is the handler's
\* step from the send to the select of the message loop, and apart from the
\* recorded write call and the log line it changes nothing: Done, the once
\* guard, the Close calls, the context, the session, the registry, the pump
\* and the writes on the peer channel are as before, so the control loop
\* goes on to its next select and read.
C30_WriteFailureHarmless ==
    [][ StdinWriteFailures' > StdinWriteFailures =>
           /\ hpc = "send"
           /\ hpc' = "select"
           /\ clientMu' = "none"
           /\ UNCHANGED << hafter, hw, Pv, cpc, Rv, Xv, Sv, Ov, Wv, CommandBuffer,
                           nread, resizeLog >> ]_vars

\* a write to stdin failed, nothing was closed or sent to the peer, and the
\* control loop has read the next peer message
C30_Witness ==
    /\ StdinWriteFailures = 1
    /\ Len(stdinLog) = 1
    /\ nread = 2
    /\ hpc = "dispatch"
    /\ ~DoneFired
    /\ \A x \in DOMAIN closes : closes[x] = 0
    /\ wlog["ctl"] = << >>

\* the positions of the handler from session.Close() of the exit line to its
\* return: the call of Close, then the deferred calls
AfterExitLine ==
    {"exit_close", "defer_session", "defer_session_wait", "defer_cancel", "defer_conn",
     "returned"}

\* C28: when the command buffer equals the exit line the handler is in
\* session.Close() or past it, on its way out through the deferred calls;
\* once Close has returned Done is fired; and from then on no peer message is
\* read, nothing is written to stdin and no message is sent by the handler.
C28_ExitLineEndsLoop ==
    /\ [](CommandBuffer = ExitLine =>
             /\ hpc \in AfterExitLine
             /\ hpc # "exit_close" => DoneFired)
    /\ [][ CommandBuffer = ExitLine =>
             UNCHANGED << CommandBuffer, msg, nread, inputsRead, stdinLog, resizeLog,
                          hw, hafter >> ]_vars

\* the inputs "exit" and "\r" made the buffer the exit line: only "exit" went
\* to stdin, Done is fired and the handler has returned
C28_Witness ==
    /\ CommandBuffer = ExitLine
    /\ inputsRead = << << "e", "x", "i", "t" >>, << "\r" >> >>
    /\ StdinWritten = << << "e", "x", "i", "t" >> >>
    /\ DoneFired
    /\ hpc = "returned"

\* the positions of the handler inside the loop: the select, the read of the
\* next peer message and the handling of the message read
InLoop == {"select", "read", "dispatch", "send"}

\* C26: once ctx.Done() is closed or Done is fired, the control loop
\* completes no read of a peer message and starts no write on the peer
\* channel, also when it was waiting in the read at that moment.
C26_NoPeerIOAfterEnd ==
    [][ (ctxDone \/ DoneFired) /\ hpc \in InLoop =>
           /\ nread' = nread
           /\ hpc' # "wbegin" ]_vars

\* the connections whose HandleWebSocket has registered and not yet returned
LiveConns == { k \in Conns : lpc[k] \notin {"none", "returned"} }

\* C24: no two live connections are registered under the same identifier.
C24_UniqueIdentifiers ==
    \A j, k \in LiveConns : j # k => lid[j] # lid[k]

\* C29: a step that sets client.SSHClient of a record finds it unset: a
\* record never gets a second transport in place of its first.
C29_OneSessionPerRecord ==
    [][ \A c \in DOMAIN recs :
          recs'[c].SSHClient # recs[c].SSHClient => recs[c].SSHClient = 0 ]_vars

\* C27: a command message whose text ends with a line terminator flushes
\* the command buffer and leaves it empty, so no record's command buffer
\* ever ends with a line terminator.
C27_TerminatorFlushes ==
    \A c \in DOMAIN recs : ~EndsLine(recs[c].CommandBuffer)

\* C25: once a read of the shell's output has returned an error, io.EOF or
\* another, the pump is calling Close or has returned, and when it has
\* returned Done is fired.
C25_ReadErrorCloses ==
    (sawEOF \/ sawReadError) =>
        /\ ppc \in {"close", "closing", "returned"}
        /\ ppc = "returned" => DoneFired

\* the list the credentials call for: the password method iff the password
\* is not empty, then the public-key method iff key material is present and
\* parses, with the password as passphrase when there is one
MethodsCalledFor(config) ==
    LET parses == IF config.Password # ""
                  THEN ~ParsePrivateKeyWithPassphrase(config.PrivateKey, config.Password).err
                  ELSE ~ParsePrivateKey(config.PrivateKey).err
    IN  (IF config.Password # ""
         THEN << [method |-> "password", with |-> config.Password] >> ELSE << >>)
        \o (IF config.PrivateKey.kind # "" /\ parses
            THEN << [method |-> "publickey", with |-> config.PrivateKey] >> ELSE << >>)

\* C23: every call of GetSSHAuthMethods returned exactly the list its
\* credentials call for.
C23_AuthMethods ==
    \A i \in DOMAIN auth : auth[i].methods = MethodsCalledFor(auth[i].config)

\* C31: in an established session, a goroutine that is past close(s.Done)
\* inside Close finds Done fired, and whenever the shell handle, the
\* transport or the peer channel has been closed Done has fired.
C31_DoneClosesFirst ==
    established =>
        /\ \A p \in Procs : cpc[p] \in {"f_session", "f_client", "f_conn", "unlock"}
                                 => DoneFired
        /\ \A x \in DOMAIN closes : closes[x] > 0 => DoneFired

\* the pump is inside Close: Done is fired and the shell handle is closed,
\* the transport and the peer channel are still open
C31_Witness ==
    /\ established
    /\ cpc["pump"] = "f_client"
    /\ DoneFired
    /\ closes = [session |-> 1, client |-> 0, conn |-> 0]

\* C32: the "output" messages of the pump, written or being written, are
\* as many as the reads that returned bytes, and none of them is empty.
C32_NonEmptyOutputs ==
    /\ \A i \in DOMAIN wlog["pump"] :
          wlog["pump"][i].type = "output" => wlog["pump"][i].content # EmptyChunk
    /\ (ppc = "wbegin" /\ pw.Type = "output") => pw.Content # EmptyChunk
    /\ Len(OutputsWritten) + (IF ppc = "wbegin" /\ pw.Type = "output" THEN 1 ELSE 0)
          = Len(SelectSeq(chunksRead, LAMBDA c : c # EmptyChunk))

\* connection k is over: HandleWebSocket has returned and its ping goroutine
\* has ended
ConnOver(k) == lpc[k] = "returned" /\ ~pingOn[k]

\* C33: when every accepted connection is over, the peer channel of each
\* has been closed, and so has every SSH transport that was dialed.
C33_AllReleased ==
    (\A k \in DOMAIN recs : ConnOver(k)) =>
        /\ \A k \in DOMAIN recs : recs[k].connCloses > 0
        /\ \A t \in DOMAIN shells : shells[t].rec = 0 => TransportClosed(t)

\* C34: every read or write of the record's IsConnected and CommandBuffer is
\* made by a goroutine that holds the record's Mu.
C34_GuardedUnderMu == lk.bare = {}

\* goroutine t is about to call Lock on one of the two locks
LkWaits(t) ==
    lk.pc[t][1] \in {"add", "get", "cmd_lock", "set_lock", "o_lock", "p_lock", "cl_lock"}
LkHolds(t) == lk.mu = t \/ lk.Mu = t

\* C36: no goroutine of the registry-driven handler holds clients.mu and a
\* record's Mu at once, and a goroutine that holds either of them is never
\* waiting for a lock, so the holder can always go on to its Unlock.
C36_LocksNeverNested ==
    \A t \in Tasks :
        /\ ~(lk.mu = t /\ lk.Mu = t)
        /\ LkHolds(t) => ~LkWaits(t)
C36_Witness ==
    /\ lk.mu = "ping" /\ lk.Mu = "out"
    /\ LkAt("loop", << "cmd_lock" >>)

RECURSIVE Joined(_)
\* the concatenation of the texts of a sequence
Joined(texts) == IF texts = << >> THEN << >> ELSE Head(texts) \o Joined(Tail(texts))

\* text a is an initial part of text b
StartsWith(b, a) == Len(a) <= Len(b) /\ SubSeq(b, 1, Len(a)) = a

\* the "input" contents the control loop has appended to the buffer: all it
\* has read, but the one it is about to dispatch
InputsAppended ==
    IF hpc = "dispatch" /\ msg.Type = "input"
    THEN SubSeq(inputsRead, 1, Len(inputsRead) - 1)
    ELSE inputsRead

\* C35: in the context-driven handler the command buffer is the concatenation
\* of all "input" contents appended since the session started and a step only
\* extends it; the handler enters the Close of the exit line only when that
\* concatenation is exactly the exit line; and once the buffer is not an
\* initial part of the exit line it never is again and that Close is never
\* entered.
C35_BufferOnlyGrows ==
    /\ [](CommandBuffer = Joined(InputsAppended))
    /\ [](hpc = "exit_close" => Joined(inputsRead) = ExitLine)
    /\ [][ /\ StartsWith(CommandBuffer', CommandBuffer)
           /\ ~StartsWith(ExitLine, CommandBuffer) =>
                 /\ ~StartsWith(ExitLine, CommandBuffer')
                 /\ hpc' # "exit_close" ]_vars

\* "\r" then "exit" were read: the buffer holds both, it is not an initial
\* part of the exit line, both went to stdin and the loop goes on
C35_Witness ==
    /\ inputsRead = << << "\r" >>, << "e", "x", "i", "t" >> >>
    /\ CommandBuffer = << "\r", "e", "x", "i", "t" >>
    /\ ~StartsWith(ExitLine, CommandBuffer)
    /\ Len(stdinLog) = 2
    /\ hpc = "select"

\* the record the registry holds for connection k (0: none)
RecOf(k) == clients[lid[k]]

\* a step sets no connected flag back to false
FlagStays == \A c \in DOMAIN recs : recs[c].IsConnected => recs'[c].IsConnected

\* SetupSSHConnection goes on to the key and the dial only for a record that
\* is not connected
DialsOnlyUnconnected ==
    \A k \in Conns :
        (lpc[k] = "setup" /\ lpc'[k] = "dial") =>
            RecOf(k) # 0 /\ ~recs[RecOf(k)].IsConnected

\* SetupSSHConnection for a connected record answers with the error and returns
SetupAnswersConnected ==
    \A k \in Conns :
        (lpc[k] = "setup" /\ lpc'[k] # "setup" /\ RecOf(k) # 0
            /\ recs[RecOf(k)].IsConnected) =>
                /\ lpc'[k] = "loop"
                /\ lwlog' = SendMessage(lwlog, RecOf(k), "error",
                                        "Already connected to an SSH server")

\* the step reads a "config" message in the loop of startShell: its empty
\* command text goes to stdin and nothing is answered
ConfigSwallowed ==
    /\ Len(lstdin') = Len(lstdin) + 1
    /\ lstdin'[Len(lstdin')].via = "stdin"
    /\ lstdin'[Len(lstdin')].text = << >>

\* C37: the connected flag of a record never goes back to false; a later
\* "config" message on the connection starts no new dial and is answered with
\* "Already connected to an SSH server", none being taken without an answer.
C37_ConnectedIsFinal ==
    [][ /\ FlagStays
        /\ DialsOnlyUnconnected
        /\ SetupAnswersConnected
        /\ ~ConfigSwallowed ]_vars

\* the texts of the errors SetupSSHConnection sends for a key that does not
\* parse and for a dial that fails
DialErrors == {"Invalid private key", "Failed to establish SSH connection"}

\* the step is the return of SetupSSHConnection in handler k after a failure
\* of the key or of the dial
DialFails(k) == lpc[k] = "dial" /\ lpc'[k] = "loop"

\* C38: when the key does not parse or the dial fails, the step leaves the
\* registry and every record as they were, the record has no SSHClient and is
\* not connected, one error message is added to the record's peer channel and
\* nothing to another, and no Close is called; and SetupSSHConnection called
\* for a registered, unconnected record goes on to the key and the dial.
C38_FailedDialLeavesRecord ==
    [][ \A k \in Conns :
          /\ DialFails(k) =>
                LET c == lcl[k].client IN
                /\ recs' = recs
                /\ clients' = clients
                /\ recs[c].SSHClient = 0
                /\ ~recs[c].IsConnected
                /\ \E text \in DialErrors :
                      lwlog' = SendMessage(lwlog, c, "error", text)
                /\ UNCHANGED << shells, lstdin >>
          /\ (lpc[k] = "setup" /\ lpc'[k] # "setup" /\ RecOf(k) # 0
                /\ ~recs[RecOf(k)].IsConnected) => lpc'[k] = "dial" ]_vars

\* the step is the end of a shell's output: its goroutine stops pumping
ShellEnds == \E t \in DOMAIN shells : shells[t].pumping /\ ~shells'[t].pumping

\* the output goroutine of the shell handler k is attached to has ended
ShellEnded(k) == lpc[k] = "shell" /\ ~shells[lcl[k].shell].pumping

\* C39: the step in which a shell's output ends returns from no handler,
\* stops no ping goroutine and leaves the registry, the records and their
\* channels as they were; a handler returns only when a read on its peer
\* channel fails, and a registry entry is removed only in such a return or
\* when a ping write fails; after the shell's end the loop of startShell
\* still reads the peer while the channel is in order, and a step that
\* writes to that shell's stdin keeps the handler in the loop and sends
\* nothing.
C39_ShellEndKeepsConnection ==
    /\ [](\A k \in Conns :
            (ShellEnded(k) /\ ~ConnFails(lcl[k].client) /\ lnread < MsgBudget) =>
                ENABLED LShellRead(k))
    /\ [][ /\ ShellEnds => UNCHANGED << lpc, lcl, pingOn, clients, recs, lstdin >>
           /\ \A k \in Conns :
                 (lpc[k] # "returned" /\ lpc'[k] = "returned") => ConnFails(k)
           /\ \A id \in RegIds :
                 (clients[id] # 0 /\ clients'[id] = 0) =>
                     \E k \in Conns :
                         /\ lid[k] = id
                         /\ ConnFails(k)
                         /\ \/ lpc[k] # "returned" /\ lpc'[k] = "returned"
                            \/ pingOn[k] /\ ~pingOn'[k]
           /\ \A k \in Conns :
                 (ShellEnded(k) /\ Len(lstdin') > Len(lstdin)
                     /\ lstdin'[Len(lstdin')].via = "stdin"
                     /\ lstdin'[Len(lstdin')].shell = lcl[k].shell) =>
                         lpc'[k] = "shell" /\ UNCHANGED << clients, recs, lwlog >> ]_vars

\* the shell has ended and the peer was told, and the handler is still in
\* the loop of startShell with its registry entry, its ping goroutine and an
\* open channel, and has written the peer's commands to stdin
C39_Witness ==
    /\ ShellEnded(1)
    /\ \E i \in DOMAIN lwlog[1] : lwlog[1][i].type = "shellClosed"
    /\ clients[lid[1]] = 1
    /\ pingOn[1]
    /\ ~ConnFails(1)
    /\ Len(lstdin) = 2
    /\ lnread = MaxPeerMsgs

\* the non-empty texts written to the stdin of shell t, in order (a message
\* without a command field is written as the empty text)
StdinTexts(t) ==
    LET ds == SelectSeq(lstdin, LAMBDA e : e.shell = t /\ e.via = "stdin" /\ e.text # << >>)
    IN  [i \in 1..Len(ds) |-> ds[i].text]

\* startShell is running on record c
ShellRunningOn(c) == \E t \in DOMAIN shells : shells[t].live /\ shells[t].rec = c

\* the step runs the "command" branch of handleMessage on record c: the
\* buffer changes, or it is flushed into a request
CommandBranch(c) ==
    \/ recs'[c].CommandBuffer # recs[c].CommandBuffer
    \/ /\ Len(lstdin') > Len(lstdin)
       /\ lstdin'[Len(lstdin')].via = "request"
       /\ lstdin'[Len(lstdin')].from = c

\* C40: the command texts read from a record's peer channel while startShell
\* runs on it are the texts written to the shell's stdin, one write per
\* message and in the order of arrival, whether or not they end a line; and
\* no step runs the "command" branch of handleMessage on a record while
\* startShell runs on it.
C40_ShellLoopTakesAll ==
    /\ [](\A t \in DOMAIN shells : shells[t].rec # 0 => StdinTexts(t) = shells[t].frags)
    /\ [][ \A c \in DOMAIN recs : ShellRunningOn(c) => ~CommandBranch(c) ]_vars
====
